---- MODULE Spec2Model ----
(***************************************************************************)
(* tojblockd: the image composer (image.cpp), the extent-based FAT         *)
(* allocator (fat.cpp) and the part of the directory encoder (dir.cpp)     *)
(* that grows a directory through the allocator.                           *)
(***************************************************************************)
EXTENDS Integers, Sequences, FiniteSets, TLC

VARIABLES
    services,          \* image.cpp: servicemap services  (start -> service_range)
    chunks,            \* image.cpp: datamap chunks       (start -> bytes)
    refs,              \* Refcounted::m_refs of every DataService
    extents,           \* fat.cpp: front extent table
    extents_from_end,  \* fat.cpp: tail extent table, high to low
    g_data_clusters,   \* fat.cpp
    finalized,         \* fat_finalize has run (construction phase is over)
    dirservices,       \* dir.cpp: starting cluster -> directory service object
    chains,            \* what the callers of the allocator were handed, in call order
    host,              \* host filesystem: file service -> 0, or the errno its reads fail with
    running,           \* main.cpp: serve() has not called fatal()
    replied_error,     \* serve() has answered a request with an error
    unique_name_counter, \* dir.cpp: the number the next short name is made from
    last               \* the last call, its arguments and what it returned

vars == <<services, chunks, refs, extents, extents_from_end, g_data_clusters,
          finalized, dirservices, chains, host, running, replied_error,
          unique_name_counter, last>>

imageVars == <<services, chunks, refs>>
fatVars == <<extents, extents_from_end, g_data_clusters, finalized, dirservices, chains>>
hostVars == <<host, running, replied_error>>
otherVars == <<hostVars, unique_name_counter>>

-----------------------------------------------------------------------------
(* Bounds of the model *)

MaxPos == 3              \* composer requests lie inside image positions [0, MaxPos)
NumServices == 2         \* test services of the composer
MaxOffset == 1           \* service offsets passed to image_register
MaxImageOps == 3         \* composer calls per run
MaxDataClusters == 3     \* fat_init(0) .. fat_init(MaxDataClusters)
MaxAlloc == 2            \* cluster counts passed to fat_alloc_beginning / fat_alloc_end
MaxFatOps == 3           \* chains allocated plus clusters added by extension, per run
MaxDirs == 2             \* directories created by dir_alloc_new
MaxDirAdds == 7          \* names added to the directories, per run
MaxNameAdds == 2         \* names of every kind added, per run
MaxFiles == 2            \* host files mapped into the volume
MaxVolumeOps == 2        \* requests made of the finished volume, per run
MaxWrite == 2            \* bytes written to the volume at once
MaxTail == 1             \* file mappings allocated beside the directories
MaxFillEntries == 3      \* FAT entries asked of FatDataService::fill at once
MaxWriteEntries == 2     \* FAT entries written through FatDataService::receive at once
MaxWriteAllocs == 2      \* chains allocated plus clusters added, before the FAT is written to

(* Program constants *)

SECTOR_SIZE == 512
CLUSTER_SIZE == 4096
RESERVED_SECTORS == 32
RESERVED_FAT_ENTRIES == 2
FAT_END_OF_CHAIN == 268435455
FAT_BAD_CLUSTER == 268435447
FAT_UNALLOCATED == 0
ROOT_DIR_CLUSTER == 2
DIR_ENTRY_SIZE == 32
CHARS_PER_DIR_ENTRY == 13
EIO == 5
EACCES == 13
ENOENT == 2
EINVAL == 22
EROFS == 30
MAX_NAME == 256
FAT_ATTR_READ_ONLY == 1
FAT_ATTR_DIRECTORY == 16
FAT_ATTR_LFN == 15

(* uint32_t arithmetic.  The model checker's integers are 32-bit signed, so *)
(* the unsigned words of the code are modelled 30 bits wide: every FAT      *)
(* constant (28 bits) fits, and sums and differences wrap around as in the  *)
(* code, at 2^30 instead of 2^32.                                           *)
U32(x) == x % 1073741824

(* uint32_t x * sz for a power of two sz, without an intermediate overflow *)
U32Mul(x, sz) == (x % (1073741824 \div sz)) * sz

Min(a, b) == IF a < b THEN a ELSE b
Max(a, b) == IF a > b THEN a ELSE b

(* ALIGN(x, sz) for a power of two sz, on 32-bit unsigned x *)
ALIGN(x, sz) == (U32(x + sz - 1) \div sz) * sz

-----------------------------------------------------------------------------
(* The test services: the logical bytestream a service serves, and the     *)
(* bytes written by the guest.                                             *)

ServiceIds == 1..NumServices
DataBytes == {1, 2}
StaleBytes == {0, 255}

(* DataService::fill: byte of service s at offset off of its bytestream *)
ServiceFill(s, off) == 16 * s + off

(* Refcounted::m_refs of s; an object that was never referenced has 0 *)
RefCount(r, s) == IF s \in DOMAIN r THEN r[s] ELSE 0

(* Refcounted::ref *)
Ref(r, s) == [x \in DOMAIN r \cup {s} |-> IF x = s THEN RefCount(r, s) + 1 ELSE r[x]]

(* The calls of final_deref() made on s so far are counted beside the      *)
(* reference counts, under a key no object has                             *)
FinalKey(s) == 0 - (s + 1)
FinalDerefs(r, s) == IF FinalKey(s) \in DOMAIN r THEN r[FinalKey(s)] ELSE 0

(* The final-release hook of s *)
final_deref(r, s) ==
    [x \in DOMAIN r \cup {FinalKey(s)} |->
        IF x = FinalKey(s) THEN FinalDerefs(r, s) + 1 ELSE r[x]]

(* deref that never runs the hook *)
Deref_without_hook(r, s) ==
    [x \in DOMAIN r \cup {s} |-> IF x = s THEN RefCount(r, s) - 1 ELSE r[x]]

(* Refcounted::deref: the hook runs when the count reaches 0 *)
Deref(r, s) ==
    LET r1 == [x \in DOMAIN r \cup {s} |-> IF x = s THEN RefCount(r, s) - 1 ELSE r[x]]
    IN IF r1[s] = 0 THEN final_deref(r1, s) ELSE r1

-----------------------------------------------------------------------------
(* std::map helpers: iterators are keys, END is the past-the-end iterator *)

END == -1

MinOf(S) == CHOOSE x \in S : \A y \in S : x <= y
MaxOf(S) == CHOOSE x \in S : \A y \in S : x >= y

(* map.lower_bound(pos) *)
LowerBound(m, pos) ==
    LET S == {k \in DOMAIN m : k >= pos}
    IN IF S = {} THEN END ELSE MinOf(S)

(* ++it *)
NextIt(m, it) ==
    LET S == {k \in DOMAIN m : k > it}
    IN IF S = {} THEN END ELSE MinOf(S)

(* m[k] = v *)
MapPut(m, k, v) == [x \in DOMAIN m \cup {k} |-> IF x = k THEN v ELSE m[x]]

(* m.erase(k) *)
MapErase(m, k) == [x \in DOMAIN m \ {k} |-> m[x]]

EmptyMap == [x \in {} |-> 0]

find_chunk(cs, pos) ==
    LET it == LowerBound(cs, pos)
        before == {k \in DOMAIN cs : k < pos}
    IN IF before # {} /\ MaxOf(before) + Len(cs[MaxOf(before)]) > pos
       THEN MaxOf(before)
       ELSE it

(* find_service that never looks at the range before pos *)
find_service_lower_bound(sv, pos) == LowerBound(sv, pos)

find_service(sv, pos) ==
    LET it == LowerBound(sv, pos)
        before == {k \in DOMAIN sv : k < pos}
    IN IF before # {} /\ MaxOf(before) + sv[MaxOf(before)].length > pos
       THEN MaxOf(before)
       ELSE it

-----------------------------------------------------------------------------
(* image_clear_services: the loop, from iterator it *)

RECURSIVE ClearServicesLoop(_, _, _, _, _)
ClearServicesLoop(sv, r, it, start, length) ==
    IF it = END THEN [services |-> sv, refs |-> r]
    ELSE IF it >= start + length THEN [services |-> sv, refs |-> r]
    ELSE
      LET range == sv[it]
          sticks == it + range.length > start + length
          new_start == start + length
          new_part == [length |-> it + range.length - new_start,
                       offset |-> range.offset + new_start - it,
                       service |-> range.service]
          sv1 == IF sticks THEN MapPut(sv, new_start, new_part) ELSE sv
          r1 == IF sticks THEN Ref(r, range.service) ELSE r
      IN IF it < start
         THEN ClearServicesLoop(
                  [sv1 EXCEPT ![it] = [@ EXCEPT !.length = start - it]],
                  r1, NextIt(sv1, it), start, length)
         ELSE ClearServicesLoop(
                  MapErase(sv1, it), Deref(r1, range.service),
                  NextIt(sv1, it), start, length)

(* image_clear_services that starts at the first range at or after start   *)
(* and so misses a range that begins before start and reaches into it      *)
image_clear_services_lower_bound(sv, r, start, length) ==
    IF length = 0 THEN [services |-> sv, refs |-> r]
    ELSE ClearServicesLoop(sv, r, LowerBound(sv, start), start, length)

image_clear_services(sv, r, start, length) ==
    IF length = 0 THEN [services |-> sv, refs |-> r]
    ELSE ClearServicesLoop(sv, r, find_service(sv, start), start, length)

(* image_register without the reference it takes for the new range *)
image_register_no_ref(sv, r, service, start, length, offset) ==
    IF length = 0
    THEN [services |-> sv, refs |-> Deref(r, service)]
    ELSE LET c == image_clear_services(sv, r, start, length)
         IN [services |-> MapPut(c.services, start,
                                 [length |-> length, offset |-> offset,
                                  service |-> service]),
             refs |-> c.refs]

(* image_register *)
image_register(sv, r, service, start, length, offset) ==
    LET r1 == Ref(r, service)
    IN IF length = 0
       THEN [services |-> sv, refs |-> Deref(r1, service)]
       ELSE LET c == image_clear_services(sv, r1, start, length)
            IN [services |-> MapPut(c.services, start,
                                    [length |-> length, offset |-> offset,
                                     service |-> service]),
                refs |-> c.refs]

-----------------------------------------------------------------------------
(* image_clear_data *)

(* memcpy(&chunk.front(), &data.back() - new_length, new_length):          *)
(* &data.back() is the address of the last element, data + size - 1        *)
TailPiece(data, new_length) ==
    [i \in 1..new_length |-> data[(Len(data) - 1 - new_length) + i]]

RECURSIVE ClearDataLoop(_, _, _, _)
ClearDataLoop(cs, it, start, length) ==
    IF it = END THEN cs
    ELSE IF it >= start + length THEN cs
    ELSE
      LET data == cs[it]
          sticks == it + Len(data) > start + length
          new_length == it + Len(data) - (start + length)
          cs1 == IF sticks
                 THEN MapPut(cs, start + length, TailPiece(data, new_length))
                 ELSE cs
      IN IF it < start
         THEN ClearDataLoop([cs1 EXCEPT ![it] = SubSeq(data, 1, start - it)],
                            NextIt(cs1, it), start, length)
         ELSE ClearDataLoop(MapErase(cs1, it), NextIt(cs1, it), start, length)

(* image_clear_data that starts at the first chunk at or after start and so *)
(* misses a chunk that begins before start and reaches into the range       *)
image_clear_data_lower_bound(cs, start, length) ==
    IF length = 0 THEN cs
    ELSE ClearDataLoop(cs, LowerBound(cs, start), start, length)

image_clear_data(cs, start, length) ==
    IF length = 0 THEN cs
    ELSE ClearDataLoop(cs, find_chunk(cs, start), start, length)

-----------------------------------------------------------------------------
(* notify_services: errs[s] is what service s returns from receive.        *)
(* The result holds the calls made, in order, and the value returned.      *)

RECURSIVE NotifyLoop(_, _, _, _, _, _)
NotifyLoop(sv, errs, s_it, start, end, calls) ==
    IF s_it = END \/ ~(s_it < end) THEN [ret |-> 0, calls |-> calls]
    ELSE
      LET range == sv[s_it]
          off == IF s_it < start THEN start - s_it ELSE 0
          bufpos == IF s_it < start THEN 0 ELSE s_it - start
          len == Min(range.length - off, end - s_it)
          call == [service |-> range.service, bufpos |-> bufpos,
                   length |-> len, offset |-> range.offset + off]
          ret == errs[range.service]
      IN IF ret # 0
         THEN [ret |-> ret, calls |-> Append(calls, call)]
         ELSE NotifyLoop(sv, errs, NextIt(sv, s_it), start, end,
                         Append(calls, call))

notify_services(sv, errs, start, length) ==
    NotifyLoop(sv, errs, find_service(sv, start), start, start + length, <<>>)

(* image_receive that stores the data although a service refused it *)
image_receive_store_anyway(sv, cs, errs, buf, start, length) ==
    IF length = 0 THEN [ret |-> 0, calls |-> <<>>, chunks |-> cs]
    ELSE LET n == notify_services(sv, errs, start, length)
         IN [ret |-> n.ret, calls |-> n.calls,
             chunks |-> MapPut(image_clear_data(cs, start, length), start, buf)]

(* image_receive: result and the new data map *)
image_receive(sv, cs, errs, buf, start, length) ==
    IF length = 0 THEN [ret |-> 0, calls |-> <<>>, chunks |-> cs]
    ELSE LET n == notify_services(sv, errs, start, length)
         IN IF n.ret # 0
            THEN [ret |-> n.ret, calls |-> n.calls, chunks |-> cs]
            ELSE [ret |-> 0, calls |-> n.calls,
                  chunks |-> MapPut(image_clear_data(cs, start, length),
                                    start, buf)]

-----------------------------------------------------------------------------
(* fat.cpp: the extent table.  Extent numbers are 0-based as in the code;  *)
(* ext[nr + 1] is extents[nr].                                             *)

is_literal(fe) == fe.prev = 0

entry_0 == [starting_cluster |-> 0, ending_cluster |-> 0,
            next |-> 268435448, prev |-> 0]
entry_1 == [starting_cluster |-> 1, ending_cluster |-> 1,
            next |-> FAT_END_OF_CHAIN, prev |-> 0]

(* g_fat_size as computed by fat_init *)
FatSize(data_clusters) ==
    ALIGN(U32Mul(U32(data_clusters + RESERVED_FAT_ENTRIES), 4), SECTOR_SIZE)

g_fat_size == FatSize(g_data_clusters)

first_free_cluster(ext) == U32(ext[Len(ext)].ending_cluster + 1)

last_free_cluster(efe, data_clusters) ==
    IF efe = <<>>
    THEN U32(data_clusters + RESERVED_FAT_ENTRIES - 1)
    ELSE U32(efe[Len(efe)].starting_cluster - 1)

RECURSIVE FindExtentLoop(_, _, _, _)
FindExtentLoop(ext, cluster_nr, l, h) ==
    IF ~(l <= h) THEN -1
    ELSE LET m == (h + l) \div 2
         IN IF cluster_nr < ext[m + 1].starting_cluster
            THEN FindExtentLoop(ext, cluster_nr, l, m - 1)
            ELSE IF cluster_nr > ext[m + 1].ending_cluster
            THEN FindExtentLoop(ext, cluster_nr, m + 1, h)
            ELSE m

find_extent(ext, cluster_nr) == FindExtentLoop(ext, cluster_nr, 0, Len(ext) - 1)

fat_cluster_pos(data_clusters, cluster_nr) ==
    RESERVED_SECTORS * SECTOR_SIZE + FatSize(data_clusters)
        + U32Mul(U32(cluster_nr - 2), CLUSTER_SIZE)

(* fat_alloc_beginning: the extent pushed on the front table *)
fat_alloc_beginning(ext, clusters) ==
    LET start == first_free_cluster(ext)
    IN [starting_cluster |-> start,
        ending_cluster |-> U32(start + clusters - 1),
        next |-> FAT_END_OF_CHAIN, prev |-> FAT_END_OF_CHAIN]

(* fat_alloc_end: the extent pushed on the tail table *)
fat_alloc_end(efe, data_clusters, clusters) ==
    LET end == last_free_cluster(efe, data_clusters)
    IN [starting_cluster |-> U32(end - clusters + 1),
        ending_cluster |-> end,
        next |-> FAT_END_OF_CHAIN, prev |-> FAT_END_OF_CHAIN]

(* fat_extend_chain: the search for the last extent of the chain;          *)
(* -1 is "no such extent", -2 is the return 0 taken on a literal extent    *)
RECURSIVE LastExtentOfChain(_, _)
LastExtentOfChain(ext, extent_nr) ==
    IF extent_nr >= 0 /\ ext[extent_nr + 1].next # FAT_END_OF_CHAIN
    THEN IF is_literal(ext[extent_nr + 1])
         THEN -2
         ELSE LastExtentOfChain(ext, find_extent(ext, ext[extent_nr + 1].next))
    ELSE extent_nr

(* fat_extend_chain: the value returned and the front table afterwards *)
fat_extend_chain(ext, cluster_nr) ==
    LET extent_nr == LastExtentOfChain(ext, find_extent(ext, cluster_nr))
    IN IF extent_nr < 0 THEN [ret |-> 0, extents |-> ext]
       ELSE IF extent_nr = Len(ext) - 1
       THEN LET e == U32(ext[extent_nr + 1].ending_cluster + 1)
            IN [ret |-> e,
                extents |-> [ext EXCEPT ![extent_nr + 1].ending_cluster = e]]
       ELSE LET start == first_free_cluster(ext)
                new_extent == [starting_cluster |-> start,
                               ending_cluster |-> start,
                               next |-> FAT_END_OF_CHAIN,
                               prev |-> ext[extent_nr + 1].ending_cluster]
            IN [ret |-> start,
                extents |-> Append([ext EXCEPT ![extent_nr + 1].next = start],
                                   new_extent)]

Reverse(s) == [i \in 1..Len(s) |-> s[Len(s) + 1 - i]]

(* fat_finalize: the extent table afterwards *)
fat_finalize(ext, efe, data_clusters, max_free_clusters) ==
    LET first == first_free_cluster(ext)
        lastf == last_free_cluster(efe, data_clusters)
        fe_free == [starting_cluster |-> first,
                    ending_cluster |-> Min(lastf, U32(first + max_free_clusters - 1)),
                    next |-> FAT_UNALLOCATED, prev |-> 0]
        ext1 == IF fe_free.ending_cluster >= fe_free.starting_cluster
                THEN Append(ext, fe_free) ELSE ext
        fe_bad == [starting_cluster |-> U32(fe_free.ending_cluster + 1),
                   ending_cluster |-> lastf,
                   next |-> FAT_BAD_CLUSTER, prev |-> 0]
        ext2 == IF fe_bad.ending_cluster >= fe_bad.starting_cluster
                THEN Append(ext1, fe_bad) ELSE ext1
    IN ext2 \o Reverse(efe)

(* htole32: the four bytes of v in memory order *)
htole32(v) == <<v % 256, (v \div 256) % 256, (v \div 65536) % 256,
                (v \div 16777216) % 256>>

(* FatDataService::fill: the 32-bit entries written, buf[0 .. entries-1].  *)
(* buf is the list written so far, i == Len(buf).                          *)
(* The inner loops run i from Len(buf) up to the first i that fails the     *)
(* loop condition.                                                         *)
FatFillLiteral(fe, entry_nr, entries, buf) ==
    LET i == Max(Len(buf), Min(entries, fe.ending_cluster - entry_nr + 1))
    IN buf \o [j \in 1..(i - Len(buf)) |-> fe.next]

FatFillChain(fe, entry_nr, entries, buf) ==
    LET i == Max(Len(buf), Min(entries, fe.ending_cluster - entry_nr))
        buf1 == buf \o [j \in 1..(i - Len(buf)) |-> U32(entry_nr + Len(buf) + j)]
    IN IF i < entries THEN Append(buf1, fe.next) ELSE buf1

RECURSIVE FatFillLoop(_, _, _, _, _)
FatFillLoop(ext, extent_nr, entry_nr, entries, buf) ==
    IF extent_nr >= 0
    THEN LET fe == ext[extent_nr + 1]
             buf1 == IF is_literal(fe)
                     THEN FatFillLiteral(fe, entry_nr, entries, buf)
                     ELSE FatFillChain(fe, entry_nr, entries, buf)
         IN IF Len(buf1) = entries THEN buf1
            ELSE FatFillLoop(ext,
                             IF extent_nr < Len(ext) - 1 THEN extent_nr + 1 ELSE -1,
                             entry_nr, entries, buf1)
    ELSE buf \o [i \in 1..(entries - Len(buf)) |-> FAT_BAD_CLUSTER]

FatEntries(ext, entry_nr, entries) ==
    FatFillLoop(ext, find_extent(ext, entry_nr), entry_nr, entries, <<>>)

(* The elements of the sequences of ss, each of 4 elements, one after another *)
Flatten(ss) == [b \in 1..(4 * Len(ss)) |-> ss[((b - 1) \div 4) + 1][((b - 1) % 4) + 1]]

(* FatDataService::fill(cbuf, length, offset): the bytes written to cbuf *)
FatDataService_fill(ext, length, offset) ==
    LET es == FatEntries(ext, offset \div 4, length \div 4)
    IN Flatten([i \in 1..Len(es) |-> htole32(es[i])])

-----------------------------------------------------------------------------
(* FatDataService::receive and the functions that change the extent table *)

(* a test that lets every value be the next of a chain *)
valid_chain_value_any(data_clusters, value) == TRUE

valid_chain_value(data_clusters, value) ==
    IF value = FAT_END_OF_CHAIN THEN TRUE
    ELSE IF value < RESERVED_FAT_ENTRIES THEN FALSE
    ELSE IF value >= U32(data_clusters + RESERVED_FAT_ENTRIES) THEN FALSE
    ELSE TRUE

(* extents.insert(extents.begin() + at, fe): at counts from 0 *)
InsertAt(ext, at, fe) == SubSeq(ext, 1, at) \o <<fe>> \o SubSeq(ext, at + 1, Len(ext))

(* extents.erase(extents.begin() + at) *)
EraseAt(ext, at) == SubSeq(ext, 1, at) \o SubSeq(ext, at + 2, Len(ext))

(* punch_extent: the table with a single-cluster extent for cluster_nr *)
punch_extent(ext, extent_nr, cluster_nr, value) ==
    LET new_ext == [starting_cluster |-> cluster_nr,
                    ending_cluster |-> cluster_nr,
                    next |-> value,
                    prev |-> IF value = FAT_UNALLOCATED \/ value = FAT_BAD_CLUSTER
                             THEN 0 ELSE FAT_END_OF_CHAIN]
        fe == ext[extent_nr + 1]
    IN IF fe.starting_cluster = fe.ending_cluster
       THEN [ext EXCEPT ![extent_nr + 1] = new_ext]
       ELSE IF fe.starting_cluster = cluster_nr
       THEN InsertAt([ext EXCEPT ![extent_nr + 1].starting_cluster =
                                     U32(fe.starting_cluster + 1)],
                     extent_nr, new_ext)
       ELSE IF fe.ending_cluster = cluster_nr
       THEN LET fe1 == [fe EXCEPT !.ending_cluster = U32(fe.ending_cluster - 1)]
                fe2 == IF is_literal(fe1) THEN fe1
                       ELSE [fe1 EXCEPT !.next = cluster_nr]
            IN InsertAt([ext EXCEPT ![extent_nr + 1] = fe2], extent_nr + 1, new_ext)
       ELSE LET post0 == [starting_cluster |-> U32(cluster_nr + 1),
                          ending_cluster |-> fe.ending_cluster,
                          next |-> fe.next, prev |-> fe.prev]
                fe1 == [fe EXCEPT !.ending_cluster = U32(cluster_nr - 1)]
                fe2 == IF is_literal(fe1) THEN fe1
                       ELSE [fe1 EXCEPT !.next = cluster_nr]
                post_ext == IF is_literal(fe1) THEN post0
                            ELSE [post0 EXCEPT !.prev = FAT_END_OF_CHAIN]
            IN InsertAt(InsertAt([ext EXCEPT ![extent_nr + 1] = fe2],
                                 extent_nr + 1, post_ext),
                        extent_nr + 1, new_ext)

(* try_inc_extent: whether the entry was added, and the table afterwards *)
try_inc_extent(ext, data_clusters, extent_nr, value) ==
    LET fe == ext[extent_nr + 1]
    IN IF is_literal(fe)
       THEN IF fe.next = value
            THEN [ok |-> TRUE,
                  extents |-> [ext EXCEPT ![extent_nr + 1].ending_cluster =
                                              U32(fe.ending_cluster + 1)]]
            ELSE [ok |-> FALSE, extents |-> ext]
       ELSE IF fe.next = U32(fe.ending_cluster + 1)
               /\ valid_chain_value(data_clusters, value)
       THEN [ok |-> TRUE,
             extents |-> [ext EXCEPT ![extent_nr + 1] =
                              [fe EXCEPT !.next = value,
                                         !.ending_cluster = U32(fe.ending_cluster + 1)]]]
       ELSE [ok |-> FALSE, extents |-> ext]

(* bump_extent: the extent lost its first entry *)
bump_extent(ext, extent_nr) ==
    LET fe == ext[extent_nr + 1]
    IN IF fe.starting_cluster = fe.ending_cluster
       THEN EraseAt(ext, extent_nr)
       ELSE [ext EXCEPT ![extent_nr + 1] =
                [fe EXCEPT !.starting_cluster = U32(fe.starting_cluster + 1),
                           !.prev = IF is_literal(fe) THEN fe.prev
                                    ELSE FAT_END_OF_CHAIN]]

(* try_renext_extent: whether the last entry was changed, and the table *)
try_renext_extent(ext, data_clusters, extent_nr, value) ==
    LET fe == ext[extent_nr + 1]
    IN IF extent_nr < RESERVED_FAT_ENTRIES THEN [ok |-> FALSE, extents |-> ext]
       ELSE IF is_literal(fe) THEN [ok |-> FALSE, extents |-> ext]
       ELSE IF valid_chain_value(data_clusters, value)
       THEN [ok |-> TRUE, extents |-> [ext EXCEPT ![extent_nr + 1].next = value]]
       ELSE [ok |-> FALSE, extents |-> ext]

(* le32toh(buf[i]): the value of bytes 4i+1 .. 4i+4 of cbuf *)
le32toh(cbuf, i) ==
    cbuf[4 * i + 1] + 256 * cbuf[4 * i + 2] + 65536 * cbuf[4 * i + 3]
        + 16777216 * cbuf[4 * i + 4]

(* receive that refuses changes of the reserved entries only *)
receive_refuses_reserved_only(entry, orig_i) == entry < RESERVED_FAT_ENTRIES

(* FatDataService::receive: the two tests that refuse a changed entry      *)
(* before the extent table is looked at                                    *)
receive_refuses(entry, orig_i) ==
    \/ entry < RESERVED_FAT_ENTRIES
    \/ orig_i = FAT_BAD_CLUSTER

(* FatDataService::receive: the loop over the entries, from entry i on;    *)
(* orig is the FAT as it was rendered when the call began                  *)
RECURSIVE ReceiveLoop(_, _, _, _, _, _, _)
ReceiveLoop(ext, data_clusters, cbuf, orig, entry_nr, entries, i) ==
    IF ~(i < entries) THEN [ret |-> 0, extents |-> ext]
    ELSE
      LET value == le32toh(cbuf, i)
          entry == U32(entry_nr + i)
          extent_nr == find_extent(ext, entry)
      IN IF value = orig[i + 1]
         THEN ReceiveLoop(ext, data_clusters, cbuf, orig, entry_nr, entries, i + 1)
         ELSE IF receive_refuses(entry, orig[i + 1])
         THEN [ret |-> EIO, extents |-> ext]
         ELSE IF extent_nr <= 0
         THEN [ret |-> EIO, extents |-> ext]
         ELSE
           LET fe == ext[extent_nr + 1]
               inc == IF fe.starting_cluster = entry
                      THEN try_inc_extent(ext, data_clusters, extent_nr - 1, value)
                      ELSE [ok |-> FALSE, extents |-> ext]
               renext == IF fe.ending_cluster = entry
                         THEN try_renext_extent(ext, data_clusters, extent_nr, value)
                         ELSE [ok |-> FALSE, extents |-> ext]
           IN IF inc.ok
              THEN ReceiveLoop(bump_extent(inc.extents, extent_nr), data_clusters,
                               cbuf, orig, entry_nr, entries, i + 1)
              ELSE IF renext.ok
              THEN ReceiveLoop(renext.extents, data_clusters, cbuf, orig,
                               entry_nr, entries, i + 1)
              ELSE ReceiveLoop(punch_extent(ext, extent_nr, entry, value),
                               data_clusters, cbuf, orig, entry_nr, entries, i + 1)

(* FatDataService::receive(cbuf, length, offset): the value returned and   *)
(* the extent table afterwards                                             *)
FatDataService_receive(ext, data_clusters, cbuf, length, offset) ==
    ReceiveLoop(ext, data_clusters, cbuf,
                FatEntries(ext, offset \div 4, length \div 4),
                offset \div 4, length \div 4, 0)

(* fat_check_invariants() returns 0: the checks it makes, in its order *)
fat_check_invariants(ext, data_clusters) ==
    /\ ~(Len(ext) < RESERVED_FAT_ENTRIES)
    /\ ext[Len(ext)].ending_cluster = U32(data_clusters + RESERVED_FAT_ENTRIES - 1)
    /\ ext[1].starting_cluster = 0
    /\ \A i \in 0..(Len(ext) - 1) :
           LET fe == ext[i + 1]
           IN /\ ~(fe.starting_cluster > fe.ending_cluster)
              /\ ~(i > 0 /\ fe.starting_cluster # U32(ext[i].ending_cluster + 1))
              /\ ~(~is_literal(fe)
                     /\ (fe.next = FAT_UNALLOCATED \/ fe.next = FAT_BAD_CLUSTER))

(* fat_is_consistent: the loop from extent i down to extent 0.  It       *)
(* returns its answer and the table with the prev values it has claimed.  *)
RECURSIVE IsConsistentLoop(_, _, _)
IsConsistentLoop(ext, data_clusters, i) ==
    IF ~(i >= 0) THEN [ret |-> TRUE, extents |-> ext]
    ELSE
      LET fe == ext[i + 1]
          next_nr == find_extent(ext, fe.next)
          nfe == ext[next_nr + 1]
      IN IF is_literal(fe)
         THEN IsConsistentLoop(ext, data_clusters, i - 1)
         ELSE IF fe.next = FAT_END_OF_CHAIN
         THEN IsConsistentLoop(ext, data_clusters, i - 1)
         ELSE IF ~valid_chain_value(data_clusters, fe.next)
         THEN [ret |-> FALSE, extents |-> ext]
         ELSE IF next_nr < 0
         THEN [ret |-> FALSE, extents |-> ext]
         ELSE IF is_literal(nfe)
         THEN [ret |-> FALSE, extents |-> ext]
         ELSE IF fe.next # nfe.starting_cluster
         THEN [ret |-> FALSE, extents |-> ext]
         ELSE IF nfe.prev = FAT_END_OF_CHAIN
         THEN IsConsistentLoop([ext EXCEPT ![next_nr + 1].prev = fe.ending_cluster],
                               data_clusters, i - 1)
         ELSE IF nfe.prev # fe.ending_cluster
         THEN [ret |-> FALSE, extents |-> ext]
         ELSE IsConsistentLoop(ext, data_clusters, i - 1)

fat_is_consistent(ext, data_clusters) ==
    IsConsistentLoop(ext, data_clusters, Len(ext) - 1)

-----------------------------------------------------------------------------
(* dir.cpp *)

fatservice == 0
DirService(starting_cluster) == 100 + starting_cluster

(* 1 + ceil(filename.size() / 13) *)
NumEntries(name_len) ==
    1 + (name_len + CHARS_PER_DIR_ENTRY - 1) \div CHARS_PER_DIR_ENTRY

(* allocated = ALIGN(parent->data.size(), CLUSTER_SIZE), at least a cluster *)
Allocated(data_size) ==
    IF ALIGN(data_size, CLUSTER_SIZE) = 0 THEN CLUSTER_SIZE
    ELSE ALIGN(data_size, CLUSTER_SIZE)

(* The clusters of a chain the caller was handed, in order *)
ChainClusters(ch) ==
    [i \in 1..ch.n |-> U32(ch.start + i - 1)] \o ch.ext

SeqRange(sq) == {sq[i] : i \in 1..Len(sq)}

(* Record a cluster returned by fat_extend_chain(cluster_nr) *)
NoteExtend(chs, cluster_nr, ret) ==
    LET owners == {i \in 1..Len(chs) : cluster_nr \in SeqRange(ChainClusters(chs[i]))}
    IN IF owners = {}
       THEN Append(chs, [kind |-> "none", start |-> cluster_nr, n |-> 0,
                         ext |-> <<ret>>])
       ELSE [chs EXCEPT ![MinOf(owners)].ext = Append(@, ret)]

RECURSIVE SumLen(_)
SumLen(chs) == IF chs = <<>> THEN 0 ELSE 1 + Len(Head(chs).ext) + SumLen(Tail(chs))

OpsDone == SumLen(chains)


(* Bit operations of the code on unsigned values *)
RECURSIVE BitOr(_, _)
BitOr(a, b) ==
    IF a = 0 THEN b
    ELSE IF b = 0 THEN a
    ELSE (IF a % 2 = 1 \/ b % 2 = 1 THEN 1 ELSE 0) + 2 * BitOr(a \div 2, b \div 2)

RECURSIVE BitAnd(_, _)
BitAnd(a, b) ==
    IF a = 0 \/ b = 0 THEN 0
    ELSE (IF a % 2 = 1 /\ b % 2 = 1 THEN 1 ELSE 0) + 2 * BitAnd(a \div 2, b \div 2)

(* fill_filename_part: the byte offsets of the 13 code units of a name part *)
char_offsets == <<1, 3, 5, 7, 9, 14, 16, 18, 20, 22, 24, 28, 30>>

(* The index i of the code unit that byte b of a name part belongs to, its *)
(* low byte at char_offsets[i] and its high byte behind it; -1 for the      *)
(* bytes that hold no code unit                                             *)
CharSlot ==
    [b \in 0..(DIR_ENTRY_SIZE - 1) |->
        IF \E i \in 0..(CHARS_PER_DIR_ENTRY - 1) : char_offsets[i + 1] \in {b, b - 1}
        THEN CHOOSE i \in 0..(CHARS_PER_DIR_ENTRY - 1) : char_offsets[i + 1] \in {b, b - 1}
        ELSE -1]

(* fill_filename_part that pads the last name part with 0x0000 *)
fill_filename_part_zero_pad(seq_nr, is_last, filename, checksum) ==
    LET fn_offset == (seq_nr - 1) * CHARS_PER_DIR_ENTRY
        max_i == Min(CHARS_PER_DIR_ENTRY, Len(filename) - fn_offset)
        CharByte(b) ==
            LET i == CharSlot[b]
            IN IF i < max_i
               THEN IF char_offsets[i + 1] = b
                    THEN filename[fn_offset + i + 1] % 256
                    ELSE filename[fn_offset + i + 1] \div 256
               ELSE 0
    IN [k \in 1..DIR_ENTRY_SIZE |->
           LET b == k - 1
           IN IF b = 0 THEN (IF is_last THEN BitOr(seq_nr, 64) ELSE seq_nr) % 256
              ELSE IF b = 11 THEN FAT_ATTR_LFN
              ELSE IF b = 12 THEN 0
              ELSE IF b = 13 THEN checksum
              ELSE IF b = 26 \/ b = 27 THEN 0
              ELSE CharByte(b)]

(* fill_filename_part(data, seq_nr, is_last, filename, checksum): the 32    *)
(* bytes data[0..31] afterwards; byte b of the entry is element b + 1       *)
fill_filename_part(seq_nr, is_last, filename, checksum) ==
    LET fn_offset == (seq_nr - 1) * CHARS_PER_DIR_ENTRY
        max_i == Min(CHARS_PER_DIR_ENTRY, Len(filename) - fn_offset)
        CharByte(b) ==
            LET i == CharSlot[b]
            IN IF i < max_i
               THEN IF char_offsets[i + 1] = b
                    THEN filename[fn_offset + i + 1] % 256
                    ELSE filename[fn_offset + i + 1] \div 256
               ELSE 255
    IN [k \in 1..DIR_ENTRY_SIZE |->
           LET b == k - 1
           IN IF b = 0 THEN (IF is_last THEN BitOr(seq_nr, 64) ELSE seq_nr) % 256
              ELSE IF b = 11 THEN FAT_ATTR_LFN
              ELSE IF b = 12 THEN 0
              ELSE IF b = 13 THEN checksum
              ELSE IF b = 26 \/ b = 27 THEN 0
              ELSE CharByte(b)]

(* calc_vfat_checksum: the loop over entry[0..10], sum is a uint8_t *)
RECURSIVE ChecksumLoop(_, _, _)
ChecksumLoop(entry, i, sum) ==
    IF i < 11
    THEN ChecksumLoop(entry, i + 1,
                      (BitAnd(sum, 1) * 128 + sum \div 2 + entry[i + 1]) % 256)
    ELSE sum

(* calc_vfat_checksum without the rotation of the sum *)
RECURSIVE PlainSumLoop(_, _, _)
PlainSumLoop(entry, i, sum) ==
    IF i < 11 THEN PlainSumLoop(entry, i + 1, (sum + entry[i + 1]) % 256) ELSE sum

calc_vfat_checksum_plain_sum(entry) == PlainSumLoop(entry, 0, 0)
calc_vfat_checksum(entry) == ChecksumLoop(entry, 0, 0)

(* prep_short_entry: entry[0..10] for the value uniq of unique_name_counter *)
prep_short_entry(uniq) ==
    <<32, 0>>
    \o [i \in 1..6 |-> (uniq \div (2 ^ (5 * (i - 1)))) % 32]
    \o <<47, 0, 0>>

(* A time_t is modelled by its parity and the broken-down times localtime   *)
(* and gmtime give for it                                                   *)
Tm(year, mon, mday, hour, min, sec) ==
    [tm_year |-> year, tm_mon |-> mon, tm_mday |-> mday,
     tm_hour |-> hour, tm_min |-> min, tm_sec |-> sec]

TimeT(odd, local, utc) == [odd |-> odd, localtime |-> local, gmtime |-> utc]

(* encode_datetime: buf[0..3] *)
encode_datetime(stamp) ==
    LET t == stamp.localtime
        time_part == BitOr(BitOr(t.tm_sec \div 2, t.tm_min * 32), t.tm_hour * 2048)
        date_part == BitOr(BitOr(t.tm_mday, (t.tm_mon + 1) * 32),
                           (t.tm_year - 80) * 512)
    IN <<(time_part) % 256, (time_part \div 256) % 256,
         (date_part) % 256, (date_part \div 256) % 256>>

(* encode_date: buf[0..1] *)
encode_date(stamp) ==
    LET t == stamp.gmtime
        date_part == BitOr(BitOr(t.tm_mday, (t.tm_mon + 1) * 32),
                           (t.tm_year - 80) * 512)
    IN <<(date_part) % 256, (date_part \div 256) % 256>>

(* dir_add_entry: short_entry[0..31] as it is copied behind the name parts *)
ShortEntry(uniq, entry_clust, file_size0, attrs0, mtime, atime) ==
    LET attrs == BitOr(attrs0, FAT_ATTR_READ_ONLY)
        file_size == IF BitAnd(attrs, FAT_ATTR_DIRECTORY) # 0 THEN 0 ELSE file_size0
    IN prep_short_entry(uniq)
       \o <<attrs, 0, mtime.odd * 100>>
       \o encode_datetime(mtime)
       \o encode_date(atime)
       \o <<(entry_clust \div 65536) % 256, (entry_clust \div 16777216) % 256>>
       \o encode_datetime(mtime)
       \o <<(entry_clust) % 256, (entry_clust \div 256) % 256>>
       \o <<(file_size) % 256, (file_size \div 256) % 256,
            (file_size \div 65536) % 256, (file_size \div 16777216) % 256>>

(* dir_add_entry: the name parts, stored last-to-first from seq_nr down to 1 *)
RECURSIVE NamePartsLoop(_, _, _, _)
NamePartsLoop(seq_nr, num_entries, filename, checksum) ==
    IF seq_nr >= 1
    THEN fill_filename_part(seq_nr, seq_nr = num_entries - 1, filename, checksum)
         \o NamePartsLoop(seq_nr - 1, num_entries, filename, checksum)
    ELSE <<>>

(* dir_add_entry: the bytes appended to parent->data *)
NewEntries(filename, short_entry) ==
    LET num_entries == NumEntries(Len(filename))
    IN NamePartsLoop(num_entries - 1, num_entries, filename,
                     calc_vfat_checksum(short_entry))
       \o short_entry

(* DirService::fill that copies from the start of the data *)
DirService_fill_from_start(data, length, offset) ==
    [i \in 1..length |-> IF i <= Len(data) THEN data[i] ELSE 0]

(* DirService::fill(buf, length, offset): buf[0 .. length-1] afterwards *)
DirService_fill(data, length, offset) ==
    LET extra == IF offset + length > Len(data)
                 THEN Min(offset + length - Len(data), length)
                 ELSE 0
    IN [i \in 1..length |-> IF i <= length - extra THEN data[offset + i] ELSE 0]

-----------------------------------------------------------------------------
(* filemap.cpp *)

(* The Filemap service of the i-th mapped file *)
Filemap(i) == 200 + i

IsDirService(s) == s >= 100 /\ s < 200
IsFilemap(s) == s >= 200

(* The byte at offset off of the host file behind file service f *)
FileByte(f, off) == ((f + off) % 251) + 1

(* Filemap::fill(buf, length, offset) of a file that can be read in full *)
Filemap_fill(f, length, offset) == [i \in 1..length |-> FileByte(f, offset + i - 1)]

(* Filemap::receive *)
Filemap_receive == EACCES

-----------------------------------------------------------------------------
(* DataService::fill, dispatched on the service registered for the range *)

DataService_fill(service, length, offset) ==
    IF service = fatservice THEN FatDataService_fill(extents, length, offset)
    ELSE IF IsDirService(service)
    THEN DirService_fill(dirservices[service - 100].data, length, offset)
    ELSE IF IsFilemap(service) THEN Filemap_fill(service, length, offset)
    ELSE [i \in 1..length |-> ServiceFill(service, offset + i - 1)]

-----------------------------------------------------------------------------
(* image_fill: the walk.  out is the part of buf filled so far; the rest   *)
(* of buf still holds what the caller passed in.  A service whose fill     *)
(* fails returns its errno and writes nothing, as TestDataService does.    *)

FillErrno(errs, service) == IF service \in DOMAIN errs THEN errs[service] ELSE 0

RECURSIVE FillLoop(_, _, _, _, _, _, _, _, _, _)
FillLoop(sv, cs, errs, buf, d_it, s_it, start, length, out, calls) ==
    LET filled == Len(out)
        pos == start + filled
        max_len0 == length - filled
    IN
    IF ~(filled < length) THEN [ret |-> 0, out |-> out, calls |-> calls]
    ELSE IF d_it # END /\ d_it <= pos
    THEN LET copy_off == pos - d_it
             fill_len == Min(Len(cs[d_it]) - copy_off, max_len0)
         IN FillLoop(sv, cs, errs, buf, NextIt(cs, d_it), s_it, start, length,
                     out \o SubSeq(cs[d_it], copy_off + 1, copy_off + fill_len),
                     calls)
    ELSE
      LET max_len1 == IF d_it # END THEN Min(d_it - pos, max_len0) ELSE max_len0
      IN IF s_it # END /\ s_it <= pos
         THEN LET fill_off == pos - s_it
                  range == sv[s_it]
              IN IF range.length <= fill_off
                 THEN FillLoop(sv, cs, errs, buf, d_it, NextIt(sv, s_it),
                               start, length, out, calls)
                 ELSE LET fill_len == Min(range.length - fill_off, max_len1)
                          call == [service |-> range.service, bufpos |-> filled,
                                   length |-> fill_len,
                                   offset |-> range.offset + fill_off]
                      IN IF FillErrno(errs, range.service) # 0
                         THEN [ret |-> FillErrno(errs, range.service),
                               out |-> out \o SubSeq(buf, filled + 1, length),
                               calls |-> Append(calls, call)]
                         ELSE FillLoop(sv, cs, errs, buf, d_it, NextIt(sv, s_it),
                                       start, length,
                                       out \o DataService_fill(range.service, fill_len,
                                                               range.offset + fill_off),
                                       Append(calls, call))
         ELSE LET max_len2 == IF s_it # END THEN Min(s_it - pos, max_len1)
                              ELSE max_len1
              IN FillLoop(sv, cs, errs, buf, d_it, s_it, start, length,
                          out \o [i \in 1..max_len2 |-> 0], calls)

(* The calls of service->fill that image_fill(buf, start, length) makes, in *)
(* order: the service, the position in buf, the length and service offset  *)
image_fill_calls(sv, cs, errs, buf, start, length) ==
    FillLoop(sv, cs, errs, buf, find_chunk(cs, start), find_service(sv, start),
             start, length, <<>>, <<>>).calls

(* The iterations of image_fill's loop, in order: the branch taken, the    *)
(* position at its start, the bytes it added to filled, and for a service  *)
(* range the position where the range ends.  "skip" is the ++s_it of a     *)
(* range that filling via d_it ran past; "error" is the return of ret.     *)
RECURSIVE FillSteps(_, _, _, _, _, _, _, _)
FillSteps(sv, cs, errs, d_it, s_it, start, length, filled) ==
    LET pos == start + filled
        max_len0 == length - filled
        Step(kind, fill_len, range_end) ==
            [kind |-> kind, pos |-> pos, fill_len |-> fill_len,
             range_end |-> range_end]
    IN
    IF ~(filled < length) THEN <<>>
    ELSE IF d_it # END /\ d_it <= pos
    THEN LET copy_off == pos - d_it
             fill_len == Min(Len(cs[d_it]) - copy_off, max_len0)
         IN <<Step("chunk", fill_len, d_it + Len(cs[d_it]))>>
            \o FillSteps(sv, cs, errs, NextIt(cs, d_it), s_it, start, length,
                         filled + fill_len)
    ELSE
      LET max_len1 == IF d_it # END THEN Min(d_it - pos, max_len0) ELSE max_len0
      IN IF s_it # END /\ s_it <= pos
         THEN LET fill_off == pos - s_it
                  range == sv[s_it]
              IN IF range.length <= fill_off
                 THEN <<Step("skip", 0, s_it + range.length)>>
                      \o FillSteps(sv, cs, errs, d_it, NextIt(sv, s_it), start,
                                   length, filled)
                 ELSE LET fill_len == Min(range.length - fill_off, max_len1)
                      IN IF FillErrno(errs, range.service) # 0
                         THEN <<Step("error", 0, s_it + range.length)>>
                         ELSE <<Step("service", fill_len, s_it + range.length)>>
                              \o FillSteps(sv, cs, errs, d_it, NextIt(sv, s_it),
                                           start, length, filled + fill_len)
         ELSE LET max_len2 == IF s_it # END THEN Min(s_it - pos, max_len1)
                              ELSE max_len1
              IN <<Step("zero", max_len2, pos + max_len2)>>
                 \o FillSteps(sv, cs, errs, d_it, s_it, start, length,
                              filled + max_len2)

(* image_fill(buf, start, length): the value returned and buf afterwards *)
image_fill(sv, cs, errs, buf, start, length) ==
    LET r == FillLoop(sv, cs, errs, buf, find_chunk(cs, start),
                      find_service(sv, start), start, length, <<>>, <<>>)
    IN [ret |-> r.ret, out |-> r.out]


-----------------------------------------------------------------------------
(* State after image_init() and fat_init(data_clusters) *)

NoCall == [op |-> "init", start |-> 0, length |-> 0, buf |-> <<>>, errs |-> <<>>,
           ret |-> 0, out |-> <<>>, calls |-> <<>>,
           arg |-> 0, full |-> FALSE, needed |-> FALSE, new_last |-> 0, n |-> 0,
           handle |-> 0, wire |-> <<>>, beyond |-> <<>>]

(* The record of a call: the calls of a run are numbered *)
Call(op) == [NoCall EXCEPT !.op = op, !.n = last.n + 1]

InitWith(data_clusters) ==
    /\ services = EmptyMap
    /\ chunks = EmptyMap
    /\ refs = [s \in ServiceIds |-> 0]
    /\ extents = <<entry_0, entry_1>>
    /\ extents_from_end = <<>>
    /\ g_data_clusters = data_clusters
    /\ finalized = FALSE
    /\ dirservices = EmptyMap
    /\ chains = <<>>
    /\ host = EmptyMap
    /\ running = TRUE
    /\ replied_error = FALSE
    /\ unique_name_counter = 1
    /\ last = NoCall

Init == \E data_clusters \in 0..MaxDataClusters : InitWith(data_clusters)

-----------------------------------------------------------------------------
(* The composer's operations *)

Requests == {rq \in (0..(MaxPos - 1)) \X (0..MaxPos) : rq[1] + rq[2] <= MaxPos}

(* The bytes of a write: alternating data bytes, beginning with seed *)
WriteBuffer(seed, length) == [i \in 1..length |-> ((seed + i) % 2) + 1]

(* DataService::receive of the test service s: 0, or its errno when told to fail *)
ReceiveErrno(s) == IF s = 1 THEN EIO ELSE EACCES + s - 2

ImageRegister(s, start, length, offset) ==
    LET r == image_register(services, refs, s, start, length, offset)
    IN /\ services' = r.services
       /\ refs' = r.refs
       /\ last' = [Call("image_register") EXCEPT !.start = start,
                           !.length = length, !.arg = s]
       /\ UNCHANGED <<otherVars, chunks, fatVars>>

ImageClearServices(start, length) ==
    LET r == image_clear_services(services, refs, start, length)
    IN /\ services' = r.services
       /\ refs' = r.refs
       /\ last' = [Call("image_clear_services") EXCEPT !.start = start,
                                 !.length = length]
       /\ UNCHANGED <<otherVars, chunks, fatVars>>

(* image_clear_data that clears the services of the range as well *)
ImageClearData_with_services(start, length) ==
    LET r == image_clear_services(services, refs, start, length)
    IN /\ chunks' = image_clear_data(chunks, start, length)
       /\ services' = r.services
       /\ refs' = r.refs
       /\ last' = [Call("image_clear_data") EXCEPT !.start = start,
                                 !.length = length]
       /\ UNCHANGED <<otherVars, fatVars>>

ImageClearData(start, length) ==
    /\ chunks' = image_clear_data(chunks, start, length)
    /\ last' = [Call("image_clear_data") EXCEPT !.start = start,
                              !.length = length]
    /\ UNCHANGED <<otherVars, services, refs, fatVars>>

ImageReceive(seed, start, length, fails) ==
    LET buf == WriteBuffer(seed, length)
        errs == [s \in ServiceIds |-> IF s \in fails THEN ReceiveErrno(s) ELSE 0]
        r == image_receive(services, chunks, errs, buf, start, length)
    IN /\ chunks' = r.chunks
       /\ last' = [Call("image_receive") EXCEPT !.start = start,
                                 !.length = length, !.buf = buf, !.errs = errs,
                                 !.ret = r.ret, !.calls = r.calls]
       /\ UNCHANGED <<otherVars, services, refs, fatVars>>

(* The buffer a caller hands to image_fill: length bytes of earlier content *)
CallerBuffer(stale, length) == [i \in 1..length |-> stale]

NoErrors == [s \in ServiceIds |-> 0]

ImageFill(stale, start, length, fails) ==
    LET buf == CallerBuffer(stale, length)
        errs == [s \in ServiceIds |-> IF s \in fails THEN ReceiveErrno(s) ELSE 0]
        r == image_fill(services, chunks, errs, buf, start, length)
    IN /\ last' = [Call("image_fill") EXCEPT !.start = start,
                                 !.length = length, !.buf = buf, !.errs = errs,
                                 !.ret = r.ret, !.out = r.out,
                                 !.calls = image_fill_calls(services, chunks, errs,
                                                            buf, start, length)]
       /\ UNCHANGED <<otherVars, imageVars, fatVars>>

NextImage ==
    /\ last.n < MaxImageOps
    /\ \/ \E s \in ServiceIds, rq \in Requests, offset \in 0..MaxOffset :
           ImageRegister(s, rq[1], rq[2], offset)
       \/ \E rq \in Requests : ImageClearServices(rq[1], rq[2])
       \/ \E rq \in Requests : ImageClearData(rq[1], rq[2])
       \/ \E seed \in DataBytes, rq \in Requests, fails \in SUBSET ServiceIds :
              ImageReceive(seed, rq[1], rq[2], fails)
       \/ \E stale \in StaleBytes, rq \in Requests, fails \in SUBSET ServiceIds :
              ImageFill(stale, rq[1], rq[2], fails)

SpecImage == InitWith(0) /\ [][NextImage]_vars

-----------------------------------------------------------------------------
(* Fills of small ranges and of a range longer than a 32-bit length: the   *)
(* machine word of the model has 30 bits, so the range is longer than 2^30 *)

HugeStart == MaxPos + 1
HugeLength == 1073741824 + MaxPos

(* Requests at both ends of the huge range *)
HugeRequests ==
    {HugeStart - 2, HugeStart, HugeStart + 1073741824 - 1, HugeStart + HugeLength - 2}
        \X (1..MaxPos)

NextFill ==
    /\ last.n < MaxImageOps
    /\ \/ \E s \in ServiceIds, rq \in Requests, offset \in 0..MaxOffset :
           ImageRegister(s, rq[1], rq[2], offset)
       \/ \E s \in ServiceIds, offset \in 0..MaxOffset :
              ImageRegister(s, HugeStart, HugeLength, offset)
       \/ \E seed \in DataBytes, rq \in Requests : ImageReceive(seed, rq[1], rq[2], {})
       \/ \E rq \in Requests \cup HugeRequests : ImageFill(255, rq[1], rq[2], {})

SpecFill == InitWith(0) /\ [][NextFill]_vars

-----------------------------------------------------------------------------
(* The FAT allocator's operations.  fat_alloc_beginning, fat_alloc_end and *)
(* fat_extend_chain belong to the construction stage that fat_finalize     *)
(* ends; FatDataService::fill serves the table fat_finalize left.          *)

(* The record of a call of the allocator or of the directory code *)
FatCall(op) == [NoCall EXCEPT !.op = op]

(* No free cluster is left between the front and the tail sequence *)
FatFull(ext, efe, data_clusters) ==
    first_free_cluster(ext) > last_free_cluster(efe, data_clusters)

AllocCounts == 0..MaxAlloc
ClusterNrs == 0..(MaxDataClusters + RESERVED_FAT_ENTRIES)
MaxFree == {1073741823} \cup (0..MaxDataClusters)
FillEntryNrs == 0..(MaxDataClusters + RESERVED_FAT_ENTRIES + 1)
FillEntries == 0..MaxFillEntries

FatAllocBeginning(clusters) ==
    LET new_extent == fat_alloc_beginning(extents, clusters)
    IN /\ ~finalized
       /\ extents' = Append(extents, new_extent)
       /\ chains' = Append(chains, [kind |-> "beginning",
                                    start |-> new_extent.starting_cluster,
                                    n |-> clusters, ext |-> <<>>])
       /\ last' = [FatCall("fat_alloc_beginning") EXCEPT !.arg = clusters,
                       !.ret = new_extent.starting_cluster]
       /\ UNCHANGED <<otherVars, imageVars, extents_from_end, g_data_clusters, finalized,
                      dirservices>>

FatAllocEnd(clusters) ==
    LET new_extent == fat_alloc_end(extents_from_end, g_data_clusters, clusters)
    IN /\ ~finalized
       /\ extents_from_end' = Append(extents_from_end, new_extent)
       /\ chains' = Append(chains, [kind |-> "end",
                                    start |-> new_extent.starting_cluster,
                                    n |-> clusters, ext |-> <<>>])
       /\ last' = [FatCall("fat_alloc_end") EXCEPT !.arg = clusters,
                       !.ret = new_extent.starting_cluster]
       /\ UNCHANGED <<otherVars, imageVars, extents, g_data_clusters, finalized,
                      dirservices>>

FatExtendChain(cluster_nr) ==
    LET r == fat_extend_chain(extents, cluster_nr)
    IN /\ ~finalized
       /\ extents' = r.extents
       /\ chains' = IF r.ret = 0 THEN chains
                    ELSE NoteExtend(chains, cluster_nr, r.ret)
       /\ last' = [FatCall("fat_extend_chain") EXCEPT !.arg = cluster_nr,
                       !.ret = r.ret,
                       !.full = FatFull(extents, extents_from_end, g_data_clusters)]
       /\ UNCHANGED <<otherVars, imageVars, extents_from_end, g_data_clusters, finalized,
                      dirservices>>

FatFinalize(max_free_clusters) ==
    LET r == image_register(services, refs, fatservice,
                            RESERVED_SECTORS * SECTOR_SIZE, g_fat_size, 0)
    IN /\ ~finalized
       /\ extents' = fat_finalize(extents, extents_from_end, g_data_clusters,
                                  max_free_clusters)
       /\ extents_from_end' = <<>>
       /\ services' = r.services
       /\ refs' = r.refs
       /\ finalized' = TRUE
       /\ last' = [FatCall("fat_finalize") EXCEPT !.arg = max_free_clusters]
       /\ UNCHANGED <<otherVars, chunks, g_data_clusters, dirservices, chains>>

FatFill(entry_nr, entries) ==
    /\ finalized
    /\ last' = [FatCall("FatDataService::fill") EXCEPT !.start = 4 * entry_nr,
                    !.length = 4 * entries,
                    !.out = FatDataService_fill(extents, 4 * entries, 4 * entry_nr)]
    /\ UNCHANGED <<otherVars, imageVars, fatVars>>

NextFat ==
    \/ /\ OpsDone < MaxFatOps
       /\ \E clusters \in AllocCounts : FatAllocBeginning(clusters)
    \/ /\ OpsDone < MaxFatOps
       /\ \E clusters \in AllocCounts : FatAllocEnd(clusters)
    \/ /\ OpsDone < MaxFatOps
       /\ \E cluster_nr \in ClusterNrs : FatExtendChain(cluster_nr)
    \/ \E max_free_clusters \in MaxFree : FatFinalize(max_free_clusters)
    \/ \E entry_nr \in FillEntryNrs, entries \in FillEntries :
           FatFill(entry_nr, entries)

SpecFat == Init /\ [][NextFat]_vars

(* Writes to the FAT of the finished volume.  The host writes whole        *)
(* entries; each is an entry value of the FAT format or the value the FAT  *)
(* holds for the entry already.  A run makes one write of up to            *)
(* MaxWriteEntries entries, or up to MaxVolumeOps writes of one entry.     *)
WriteEntries == 1..MaxWriteEntries
WriteValues == {FAT_UNALLOCATED, FAT_BAD_CLUSTER, FAT_END_OF_CHAIN}
                   \cup (1..(MaxDataClusters + RESERVED_FAT_ENTRIES))

(* The buffers of a write of entries entries at entry_nr *)
WriteBufs(ext, entry_nr, entries) ==
    LET orig == FatEntries(ext, entry_nr, entries)
    IN {Flatten([i \in 1..entries |-> htole32(vs[i])]) :
            vs \in {ws \in [1..entries -> WriteValues \cup {orig[j] : j \in 1..entries}] :
                        \A i \in 1..entries : ws[i] \in WriteValues \cup {orig[i]}}}

FatReceive(entry_nr, entries, cbuf) ==
    LET r == FatDataService_receive(extents, g_data_clusters, cbuf,
                                    4 * entries, 4 * entry_nr)
    IN /\ finalized
       /\ extents' = r.extents
       /\ last' = [Call("FatDataService::receive") EXCEPT !.start = 4 * entry_nr,
                       !.length = 4 * entries, !.buf = cbuf, !.ret = r.ret]
       /\ UNCHANGED <<otherVars, imageVars, extents_from_end, g_data_clusters,
                      finalized, dirservices, chains>>

NextFatWrite ==
    \/ /\ OpsDone < MaxWriteAllocs
       /\ \E clusters \in AllocCounts : FatAllocBeginning(clusters)
    \/ /\ OpsDone < MaxWriteAllocs
       /\ \E clusters \in AllocCounts : FatAllocEnd(clusters)
    \/ /\ OpsDone < MaxWriteAllocs
       /\ \E cluster_nr \in ClusterNrs : FatExtendChain(cluster_nr)
    \/ \E max_free_clusters \in MaxFree : FatFinalize(max_free_clusters)
    \/ /\ last.n < MaxVolumeOps
       /\ \E entry_nr \in FillEntryNrs, entries \in WriteEntries :
              /\ last.n > 0 => (last.length = 4 /\ entries = 1)
              /\ \E cbuf \in WriteBufs(extents, entry_nr, entries) :
                     FatReceive(entry_nr, entries, cbuf)

SpecFatWrite == InitWith(MaxDataClusters) /\ [][NextFatWrite]_vars

(* fat_is_consistent() called on the finished volume, between the writes. *)
(* The record of the last write is kept beside the answer.                *)
FatIsConsistent ==
    LET r == fat_is_consistent(extents, g_data_clusters)
    IN /\ finalized
       /\ extents' = r.extents
       /\ last' = [last EXCEPT !.op = "fat_is_consistent",
                               !.ret = IF r.ret THEN 1 ELSE 0]
       /\ UNCHANGED <<otherVars, imageVars, extents_from_end, g_data_clusters,
                      finalized, dirservices, chains>>

NextFatCheck ==
    \/ NextFatWrite
    \/ FatIsConsistent

SpecFatCheck == InitWith(MaxDataClusters) /\ [][NextFatCheck]_vars

-----------------------------------------------------------------------------
(* Requests of the composer on the finished volume, at the FAT region.    *)
(* fat_finalize has registered fatservice for the g_fat_size bytes behind *)
(* the reserved sectors; image_fill and image_receive hand it the part of *)
(* a request that lies in that range.                                     *)

(* The first byte of the FAT *)
FatStart == RESERVED_SECTORS * SECTOR_SIZE

(* assert(offset % 4 == 0); assert(length % 4 == 0); of fill and receive *)
FatAligned(length, offset) == offset % 4 = 0 /\ length % 4 = 0

(* The calls among calls that are made of fatservice *)
FatCalls(calls) ==
    {i \in 1..Len(calls) : calls[i].service = fatservice}

(* Some call of fatservice among calls fails its assertions *)
FatAsserts(calls) ==
    \E i \in FatCalls(calls) : ~FatAligned(calls[i].length, calls[i].offset)

(* No service fails *)
AllAccept == [s \in {services[k].service : k \in DOMAIN services} |-> 0]

(* image_fill(buf, start, length) on the volume; a failed assertion ends  *)
(* the process before anything is returned                                *)
VolumeFill(stale, start, length) ==
    LET buf == CallerBuffer(stale, length)
        calls == image_fill_calls(services, chunks, AllAccept, buf, start, length)
        r == image_fill(services, chunks, AllAccept, buf, start, length)
    IN /\ finalized
       /\ running
       /\ running' = ~FatAsserts(calls)
       /\ last' = IF FatAsserts(calls)
                  THEN [Call("image_fill") EXCEPT !.start = start,
                            !.length = length, !.buf = buf, !.calls = calls]
                  ELSE [Call("image_fill") EXCEPT !.start = start,
                            !.length = length, !.buf = buf, !.calls = calls,
                            !.ret = r.ret, !.out = r.out]
       /\ UNCHANGED <<host, replied_error, unique_name_counter, imageVars, fatVars>>

(* The part of a write that notify_services hands to fatservice: the      *)
(* position in buf, the length and the offset into the FAT, as line 117   *)
(* of image.cpp computes them                                             *)
FatPart(start, length) ==
    LET calls == notify_services(services, AllAccept, start, length).calls
    IN calls[CHOOSE i \in FatCalls(calls) : TRUE]

(* Whether a write reaches fatservice at all *)
ReachesFat(start, length) ==
    /\ length # 0
    /\ FatCalls(notify_services(services, AllAccept, start, length).calls) # {}

(* The number of bytes the part handed to fatservice extends past the end *)
(* of buf: receive reads them from the memory behind the caller's buffer  *)
ReadBeyond(start, length) ==
    IF ReachesFat(start, length)
    THEN Max(0, FatPart(start, length).bufpos + FatPart(start, length).length - length)
    ELSE 0

(* What that memory may hold: the FAT entries as they are, or one FAT     *)
(* value throughout                                                       *)
BeyondValues == {FAT_END_OF_CHAIN}
BeyondBufs(start, length) ==
    LET need == ReadBeyond(start, length)
        part == FatPart(start, length)
        first == (part.offset + part.length - need) \div 4
    IN IF need = 0 THEN {<<>>}
       ELSE IF ~FatAligned(part.length, part.offset)
       THEN {[i \in 1..need |-> 0]}
       ELSE {Flatten([i \in 1..(need \div 4) |-> htole32(v)]) : v \in BeyondValues}
                \cup {FatDataService_fill(extents, need, 4 * first)}

(* image_receive(buf, start, length) on the volume: notify_services hands *)
(* fatservice its part of buf, FatDataService::receive works on the       *)
(* extent table, and the data is stored if no service refused.  beyond is *)
(* the memory behind buf.                                                 *)
VolumeWrite(buf, beyond, start, length) ==
    LET reaches == ReachesFat(start, length)
        call == FatPart(start, length)
        aborts == reaches /\ ~FatAligned(call.length, call.offset)
        rcv == FatDataService_receive(extents, g_data_clusters,
                   SubSeq(buf \o beyond, call.bufpos + 1, call.bufpos + call.length),
                   call.length, call.offset)
        errs == [s \in DOMAIN AllAccept |->
                    IF s = fatservice /\ reaches THEN rcv.ret ELSE 0]
        r == image_receive(services, chunks, errs, buf, start, length)
    IN /\ finalized
       /\ running
       /\ running' = ~aborts
       /\ extents' = IF reaches /\ ~aborts THEN rcv.extents ELSE extents
       /\ chunks' = IF aborts THEN chunks ELSE r.chunks
       /\ last' = IF aborts
                  THEN [Call("image_receive") EXCEPT !.start = start,
                            !.length = length, !.buf = buf, !.beyond = beyond]
                  ELSE [Call("image_receive") EXCEPT !.start = start,
                            !.length = length, !.buf = buf, !.beyond = beyond,
                            !.errs = errs, !.ret = r.ret, !.calls = r.calls]
       /\ UNCHANGED <<host, replied_error, unique_name_counter, services, refs,
                      extents_from_end, g_data_clusters, finalized, dirservices,
                      chains>>

(* image_clear_data(start, length) on the volume *)
VolumeClearData(start, length) ==
    /\ finalized
    /\ running
    /\ ImageClearData(start, length)

(* The requests: whole FAT entries, and ranges that begin or end inside   *)
(* an entry or before the FAT                                             *)
VolumeEntryNrs == {0, RESERVED_FAT_ENTRIES, RESERVED_FAT_ENTRIES + 1,
                   MaxDataClusters + RESERVED_FAT_ENTRIES}
VolumeRequests ==
    {<<FatStart + 4 * e, 4 * n>> : e \in VolumeEntryNrs, n \in 1..MaxWriteEntries}
        \cup {<<FatStart - 2, 2>>, <<FatStart - 2, 6>>, <<FatStart + 2, 4>>,
              <<FatStart + 8, 2>>, <<FatStart + 10, 2>>}
VolumeWriteValues == {FAT_UNALLOCATED, FAT_END_OF_CHAIN, ROOT_DIR_CLUSTER + 1}

(* The buffers written for a request: FAT entries for a request of whole  *)
(* entries (each a value of VolumeWriteValues or the value held), bytes   *)
(* of a pattern for the others                                            *)
VolumeBufs(rq) ==
    IF rq[1] >= FatStart /\ FatAligned(rq[2], rq[1] - FatStart)
    THEN LET entry_nr == (rq[1] - FatStart) \div 4
             entries == rq[2] \div 4
             orig == FatEntries(extents, entry_nr, entries)
         IN {Flatten([i \in 1..entries |-> htole32(vs[i])]) :
                vs \in {ws \in [1..entries ->
                                   VolumeWriteValues \cup {orig[j] : j \in 1..entries}] :
                            \A i \in 1..entries :
                                ws[i] \in VolumeWriteValues \cup {orig[i]}}}
    ELSE {WriteBuffer(seed, rq[2]) : seed \in DataBytes}

NextVolume ==
    \/ /\ chains = <<>>
       /\ \E clusters \in AllocCounts : FatAllocBeginning(clusters)
    \/ \E max_free_clusters \in {1, MaxDataClusters} : FatFinalize(max_free_clusters)
    \/ /\ last.n < MaxVolumeOps
       /\ \E rq \in VolumeRequests : VolumeFill(255, rq[1], rq[2])
    \/ /\ last.n < MaxVolumeOps
       /\ \E rq \in VolumeRequests : \E buf \in VolumeBufs(rq) :
              \E beyond \in BeyondBufs(rq[1], rq[2]) :
                  VolumeWrite(buf, beyond, rq[1], rq[2])
    \/ /\ last.n < MaxVolumeOps
       /\ \E rq \in VolumeRequests : VolumeClearData(rq[1], rq[2])

SpecVolume == InitWith(MaxDataClusters) /\ [][NextVolume]_vars

-----------------------------------------------------------------------------
(* The directory code on top of the allocator and the composer *)

(* A filename of len code units, the terminator included; hi is the high   *)
(* byte of its characters                                                  *)
Name(len, hi) ==
    [i \in 1..len |-> IF i = len THEN 0 ELSE 256 * hi + ((i - 1) % 255) + 1]

(* What dir_add_entry is told about the entry besides its parent and name: *)
(* a file mapped at cluster 5, and a subdirectory                          *)
FileArgs ==
    [entry_clust |-> 5, file_size |-> CLUSTER_SIZE + 1, attrs |-> 0,
     mtime |-> TimeT(1, Tm(112, 4, 26, 14, 3, 7), Tm(112, 4, 26, 11, 3, 7)),
     atime |-> TimeT(0, Tm(80, 0, 1, 0, 0, 0), Tm(80, 0, 1, 0, 0, 0))]

SubdirArgs ==
    [entry_clust |-> 3, file_size |-> SECTOR_SIZE, attrs |-> FAT_ATTR_DIRECTORY,
     mtime |-> TimeT(0, Tm(80, 0, 1, 0, 0, 0), Tm(80, 0, 1, 0, 0, 0)),
     atime |-> TimeT(1, Tm(112, 4, 26, 14, 3, 7), Tm(112, 4, 26, 11, 3, 7))]

(* Names at the length limit, which fill a directory cluster quickly *)
LongNames == {Name(MAX_NAME, 0), Name(MAX_NAME + 1, 0)}

(* Names around the boundaries of the 13-unit name parts *)
NameLens == {1, 2, CHARS_PER_DIR_ENTRY, CHARS_PER_DIR_ENTRY + 1,
             2 * CHARS_PER_DIR_ENTRY + 1, MAX_NAME, MAX_NAME + 1}
ShortNames ==
    {Name(len, 0) : len \in NameLens} \cup {Name(CHARS_PER_DIR_ENTRY + 1, 78)}

DirDataSize(d) == Len(d.data)

(* The number of names added to the directories so far *)
AddsDone == unique_name_counter - 1

(* filename.size() > 256 *)
NameTooLong_255(filename) == Len(filename) >= MAX_NAME
NameTooLong(filename) == Len(filename) > MAX_NAME

DirAllocNew ==
    LET new_extent == fat_alloc_beginning(extents, 1)
        starting_cluster == new_extent.starting_cluster
        service == DirService(starting_cluster)
        r == image_register(services, Ref(refs, service), service,
                            fat_cluster_pos(g_data_clusters, starting_cluster),
                            CLUSTER_SIZE, 0)
    IN /\ ~finalized
       /\ extents' = Append(extents, new_extent)
       /\ chains' = Append(chains, [kind |-> "beginning",
                                    start |-> starting_cluster,
                                    n |-> 1, ext |-> <<>>])
       /\ dirservices' = MapPut(dirservices, starting_cluster,
                                [data |-> <<>>, last_cluster |-> starting_cluster])
       /\ services' = r.services
       /\ refs' = r.refs
       /\ last' = [FatCall("dir_alloc_new") EXCEPT !.ret = starting_cluster]
       /\ UNCHANGED <<otherVars, chunks, extents_from_end, g_data_clusters, finalized>>

DirAddEntry(parent_clust0, filename, e) ==
    LET parent_clust == IF parent_clust0 = 0 THEN ROOT_DIR_CLUSTER ELSE parent_clust0
        call == [FatCall("dir_add_entry") EXCEPT !.arg = parent_clust0,
                     !.length = Len(filename),
                     !.buf = filename,
                     !.full = FatFull(extents, extents_from_end, g_data_clusters)]
    IN /\ ~finalized
       /\ UNCHANGED hostVars
       /\ IF NameTooLong(filename) \/ parent_clust \notin DOMAIN dirservices
          THEN /\ last' = call
               /\ UNCHANGED <<unique_name_counter, imageVars, fatVars>>
          ELSE LET parent == dirservices[parent_clust]
                   service == DirService(parent_clust)
                   allocated == Allocated(DirDataSize(parent))
                   num_entries == NumEntries(Len(filename))
                   needed == num_entries * DIR_ENTRY_SIZE + DirDataSize(parent) > allocated
                   x == fat_extend_chain(extents, parent.last_cluster)
                   r == image_register(services, refs, service,
                                       fat_cluster_pos(g_data_clusters, x.ret),
                                       CLUSTER_SIZE, allocated)
                   short_entry == ShortEntry(unique_name_counter, e.entry_clust,
                                             e.file_size, e.attrs, e.mtime, e.atime)
                   data == parent.data \o NewEntries(filename, short_entry)
                   done == [call EXCEPT !.ret = 1, !.start = Len(parent.data)]
               IN IF needed /\ x.ret = 0
                  THEN /\ extents' = x.extents
                       /\ last' = [call EXCEPT !.needed = TRUE]
                       /\ UNCHANGED <<unique_name_counter, imageVars, extents_from_end,
                                      g_data_clusters, finalized, dirservices, chains>>
                  ELSE IF needed
                  THEN /\ extents' = x.extents
                       /\ chains' = NoteExtend(chains, parent.last_cluster, x.ret)
                       /\ services' = r.services
                       /\ refs' = r.refs
                       /\ dirservices' = [dirservices EXCEPT ![parent_clust] =
                              [data |-> data, last_cluster |-> x.ret]]
                       /\ unique_name_counter' = U32(unique_name_counter + 1)
                       /\ last' = [done EXCEPT !.needed = TRUE, !.new_last = x.ret]
                       /\ UNCHANGED <<chunks, extents_from_end, g_data_clusters,
                                      finalized>>
                  ELSE /\ dirservices' = [dirservices EXCEPT ![parent_clust].data = data]
                       /\ unique_name_counter' = U32(unique_name_counter + 1)
                       /\ last' = done
                       /\ UNCHANGED <<imageVars, extents, extents_from_end,
                                      g_data_clusters, finalized, chains>>

NextDir ==
    \/ /\ Cardinality(DOMAIN dirservices) < MaxDirs
       /\ DirAllocNew
    \/ /\ AddsDone < MaxDirAdds
       /\ \E parent_clust \in ClusterNrs, filename \in LongNames :
              DirAddEntry(parent_clust, filename, FileArgs)
    \/ /\ Len(extents_from_end) < MaxTail
       /\ \E clusters \in 1..MaxAlloc : FatAllocEnd(clusters)

(* A volume of one data cluster, which the root directory fills, and one   *)
(* with room for another directory and a second cluster                    *)
InitDir == \E data_clusters \in {1, MaxDataClusters} : InitWith(data_clusters)

SpecDir == InitDir /\ [][NextDir]_vars

(* Directories that grow beyond their first cluster, on a volume with room *)
(* for it                                                                  *)
NextChain ==
    \/ /\ Cardinality(DOMAIN dirservices) < MaxDirs
       /\ DirAllocNew
    \/ /\ AddsDone < MaxDirAdds
       /\ \E parent_clust \in {0, ROOT_DIR_CLUSTER + 1} :
              DirAddEntry(parent_clust, Name(MAX_NAME, 0), FileArgs)
    \/ /\ Len(extents_from_end) < MaxTail
       /\ FatAllocEnd(1)

SpecChain == InitWith(MaxDataClusters + 1) /\ [][NextChain]_vars

(* Directories that are given a few names of every kind *)
NextName ==
    \/ /\ Cardinality(DOMAIN dirservices) < MaxDirs
       /\ DirAllocNew
    \/ /\ AddsDone < MaxNameAdds
       /\ \E parent_clust \in ClusterNrs, filename \in ShortNames,
             e \in {FileArgs, SubdirArgs} :
              DirAddEntry(parent_clust, filename, e)

SpecName == InitWith(MaxDataClusters) /\ [][NextName]_vars

-----------------------------------------------------------------------------
(* The exported volume: vfat_init builds it (fat_init, dir_init, one       *)
(* filemap_add per host file, fat_finalize), then the composer answers.    *)

(* A volume with room for a file of the largest size *)
BigDataClusters == (1073741824 \div CLUSTER_SIZE) + MaxDataClusters

(* Sizes of host files: a byte, a cluster, a cluster and a byte, the largest *)
FileSizes == {1, CLUSTER_SIZE, CLUSTER_SIZE + 1, 1073741823}

(* filemap_add: the number of clusters asked of fat_alloc_end *)
nr_clust(size) == ALIGN(size, CLUSTER_SIZE) \div CLUSTER_SIZE

RootExists == ROOT_DIR_CLUSTER \in DOMAIN dirservices

(* dir_init *)
DirInit ==
    /\ dirservices = EmptyMap
    /\ DirAllocNew

(* filemap_add(name, size) for the next host file; scan_fts calls it for   *)
(* files of size > 0                                                       *)
FilemapAdd(size) ==
    LET new_extent == fat_alloc_end(extents_from_end, g_data_clusters, nr_clust(size))
        starting_cluster == new_extent.starting_cluster
        service == Filemap(Cardinality(DOMAIN host) + 1)
        r == image_register(services, refs, service,
                            fat_cluster_pos(g_data_clusters, starting_cluster), size, 0)
    IN /\ RootExists
       /\ ~finalized
       /\ size > 0
       /\ extents_from_end' = Append(extents_from_end, new_extent)
       /\ chains' = Append(chains, [kind |-> "end", start |-> starting_cluster,
                                    n |-> nr_clust(size), ext |-> <<>>])
       /\ services' = r.services
       /\ refs' = r.refs
       /\ host' = MapPut(host, service, 0)
       /\ last' = [FatCall("filemap_add") EXCEPT !.arg = size,
                       !.ret = starting_cluster]
       /\ UNCHANGED <<running, replied_error, unique_name_counter, chunks, extents,
                      g_data_clusters, finalized, dirservices>>

(* vfat_init: fat_finalize(free_space / CLUSTER_SIZE) *)
VolumeFinalize ==
    /\ RootExists
    /\ FatFinalize(MaxDataClusters)

(* The first byte of the data area: the reserved sectors and the FAT lie   *)
(* before it                                                               *)
DataStart == fat_cluster_pos(g_data_clusters, RESERVED_FAT_ENTRIES)

(* Image positions at the borders of the registered ranges of the data area *)
DataBorders ==
    {p \in UNION {{k, k + 1, k + services[k].length - 1, k + services[k].length} :
                     k \in DOMAIN services} : p >= DataStart}

(* DataService::receive of every registered service: a directory service   *)
(* accepts (a stub), a file service refuses                                *)
VolumeReceiveErrs ==
    [s \in {services[k].service : k \in DOMAIN services} |->
        IF IsFilemap(s) THEN Filemap_receive ELSE 0]

(* image_receive of a write into the data area *)
VolumeReceive(seed, start, length) ==
    LET buf == WriteBuffer(seed, length)
        r == image_receive(services, chunks, VolumeReceiveErrs, buf, start, length)
    IN /\ finalized
       /\ chunks' = r.chunks
       /\ last' = [Call("image_receive") EXCEPT !.start = start,
                                 !.length = length, !.buf = buf,
                                 !.errs = VolumeReceiveErrs,
                                 !.ret = r.ret, !.calls = r.calls]
       /\ UNCHANGED <<otherVars, services, refs, fatVars>>

NextMap ==
    \/ DirInit
    \/ /\ Cardinality(DOMAIN host) < MaxFiles
       /\ \E size \in FileSizes : FilemapAdd(size)
    \/ VolumeFinalize
    \/ /\ last.n < MaxVolumeOps
       /\ \E seed \in DataBytes, start \in DataBorders, length \in 1..MaxWrite :
              VolumeReceive(seed, start, length)

InitMap == \E data_clusters \in {MaxDataClusters, BigDataClusters} : InitWith(data_clusters)

SpecMap == InitMap /\ [][NextMap]_vars

-----------------------------------------------------------------------------
(* main.cpp: serve() answers the requests of the block device.  A request  *)
(* is its handle, its offset and its length; what is written to the socket *)
(* for it is a list of messages.                                           *)

Handles == {1, 2}

(* send_reply: the reply header *)
send_reply(handle, error) == [kind |-> "reply", error |-> error, handle |-> handle]

(* write_buf of the bytes read *)
write_buf(buf) == [kind |-> "payload", bytes |-> buf]

(* vfat_fill hands the request to the composer *)
vfat_fill(sv, cs, errs, buf, from, len) == image_fill(sv, cs, errs, buf, from, len)

(* serve that sends the buffer whatever vfat_fill returned *)
serve_read_payload_always(sv, cs, errs, buf, handle, from, len) ==
    LET r == vfat_fill(sv, cs, errs, buf, from, len)
    IN <<send_reply(handle, r.ret), write_buf(r.out)>>

(* serve, case NBD_CMD_READ: the messages written *)
serve_read(sv, cs, errs, buf, handle, from, len) ==
    LET r == vfat_fill(sv, cs, errs, buf, from, len)
    IN IF r.ret = 0
       THEN <<send_reply(handle, r.ret), write_buf(r.out)>>
       ELSE <<send_reply(handle, r.ret)>>

(* Sizes of the host files of the served volume *)
ServedFileSizes == {1, CLUSTER_SIZE + 1}

(* Requests of whole sectors and clusters, from the FAT on *)
ReadStarts ==
    {RESERVED_SECTORS * SECTOR_SIZE}
        \cup {fat_cluster_pos(g_data_clusters, c) :
                 c \in RESERVED_FAT_ENTRIES..(g_data_clusters + 1)}
ReadLens == {SECTOR_SIZE, CLUSTER_SIZE}

(* A host file disappears, or can no longer be read: open, lseek or read   *)
(* of Filemap::fill fail with errno from now on                            *)
HostFails(f, errno) ==
    /\ finalized
    /\ running
    /\ f \in DOMAIN host
    /\ host[f] = 0
    /\ host' = [host EXCEPT ![f] = errno]
    /\ last' = [FatCall("host_fails") EXCEPT !.arg = f, !.ret = errno]
    /\ UNCHANGED <<running, replied_error, unique_name_counter, imageVars, fatVars>>

ServeRead(stale, handle, from, len) ==
    LET wire == serve_read(services, chunks, host, CallerBuffer(stale, len),
                           handle, from, len)
    IN /\ finalized
       /\ running
       /\ replied_error' = (replied_error \/ wire[1].error # 0)
       /\ last' = [FatCall("serve_read") EXCEPT !.handle = handle, !.start = from,
                       !.length = len, !.wire = wire]
       /\ UNCHANGED <<host, running, unique_name_counter, imageVars, fatVars>>

(* serve, case NBD_CMD_WRITE: the payload is read and dropped *)
ServeWrite(handle, from, len) ==
    /\ finalized
    /\ running
    /\ last' = [FatCall("serve_write") EXCEPT !.handle = handle, !.start = from,
                    !.length = len, !.wire = <<send_reply(handle, EROFS)>>]
    /\ UNCHANGED <<otherVars, imageVars, fatVars>>

(* serve, default case *)
ServeOther(handle) ==
    /\ finalized
    /\ running
    /\ last' = [FatCall("serve_other") EXCEPT !.handle = handle,
                    !.wire = <<send_reply(handle, EINVAL)>>]
    /\ UNCHANGED <<otherVars, imageVars, fatVars>>

(* serve: a request with a bad magic number ends the server *)
ServeBadMagic ==
    /\ finalized
    /\ running
    /\ running' = FALSE
    /\ last' = FatCall("fatal")
    /\ UNCHANGED <<host, replied_error, unique_name_counter, imageVars, fatVars>>

NextServe ==
    \/ DirInit
    \/ /\ Cardinality(DOMAIN host) < MaxFiles
       /\ \E size \in ServedFileSizes : FilemapAdd(size)
    \/ VolumeFinalize
    \/ \E f \in DOMAIN host, errno \in {ENOENT, EIO} : HostFails(f, errno)
    \/ \E stale \in {255}, handle \in Handles, from \in ReadStarts, len \in ReadLens :
           ServeRead(stale, handle, from, len)
    \/ \E handle \in Handles, from \in ReadStarts, len \in ReadLens :
           ServeWrite(handle, from, len)
    \/ \E handle \in Handles : ServeOther(handle)
    \/ ServeBadMagic

SpecServe == InitWith(MaxDataClusters) /\ [][NextServe]_vars

-----------------------------------------------------------------------------
(* What the composer's maps say about an image position *)

ChunkAt(cs, p) == {k \in DOMAIN cs : k <= p /\ p < k + Len(cs[k])}
ServiceAt(sv, p) == {k \in DOMAIN sv : k <= p /\ p < k + sv[k].length}

(* The byte the precedence rule gives position p: chunk, else service, else 0 *)
ByteAt(sv, cs, p) ==
    IF ChunkAt(cs, p) # {}
    THEN LET k == MinOf(ChunkAt(cs, p)) IN cs[k][p - k + 1]
    ELSE IF ServiceAt(sv, p) # {}
    THEN LET k == MinOf(ServiceAt(sv, p))
         IN ServiceFill(sv[k].service, sv[k].offset + (p - k))
    ELSE 0

(* The service ranges that intersect [start, start + length), ascending *)
RECURSIVE SortedKeys(_)
SortedKeys(S) == IF S = {} THEN <<>>
                 ELSE <<MinOf(S)>> \o SortedKeys(S \ {MinOf(S)})

Intersecting(sv, start, length) ==
    SortedKeys({k \in DOMAIN sv :
                    Max(k, start) < Min(k + sv[k].length, start + length)})

(* The receive call the intersection of range k with the write asks for *)
ExpectedCall(sv, k, start, length) ==
    [service |-> sv[k].service,
     bufpos |-> Max(k, start) - start,
     length |-> Min(k + sv[k].length, start + length) - Max(k, start),
     offset |-> sv[k].offset + (Max(k, start) - k)]

(* C1: image_fill returns 0 and gives every position of the request the    *)
(* stored chunk's byte if a chunk covers it, else the byte of the service  *)
(* registered there at the matching service offset, else 0 - also behind a *)
(* chunk that interrupts a service range inside the request.               *)
C1_FillPrecedence ==
    (last.op = "image_fill" /\ last.errs = NoErrors) =>
        /\ last.ret = 0
        /\ Len(last.out) = last.length
        /\ \A i \in 1..last.length :
               last.out[i] = ByteAt(services, chunks, last.start + i - 1)

(* C4: the reference count of every test service (no references are held   *)
(* outside the composer) equals the number of service-map entries naming it *)
C4_RefsMatchEntries ==
    \A s \in ServiceIds :
        RefCount(refs, s) = Cardinality({k \in DOMAIN services : services[k].service = s})

(* C4 witness: a partial clear has split a range in two, and the service    *)
(* holds two references                                                     *)
C4_Witness ==
    /\ last.op = "image_clear_services"
    /\ \E s \in ServiceIds :
           /\ RefCount(refs, s) = 2
           /\ \E k1, k2 \in DOMAIN services :
                  /\ k1 < last.start /\ k2 = last.start + last.length
                  /\ services[k1].service = s /\ services[k2].service = s

(* C7: when a service's receive fails during image_receive, image_receive   *)
(* returns that service's value, the ranges behind it are not notified, and *)
(* neither map changes                                                      *)
C7_ReceiveError ==
    [][(/\ last'.op = "image_receive"
        /\ last'.n = last.n + 1
        /\ \E k \in DOMAIN services :
               /\ k \in SeqRange(Intersecting(services, last'.start, last'.length))
               /\ last'.errs[services[k].service] # 0)
       =>
       LET ks == Intersecting(services, last'.start, last'.length)
           failing == MinOf({i \in 1..Len(ks) : last'.errs[services[ks[i]].service] # 0})
       IN /\ last'.ret = last'.errs[services[ks[failing]].service]
          /\ Len(last'.calls) = failing
          /\ \A i \in 1..failing : last'.calls[i].service = services[ks[i]].service
          /\ services' = services
          /\ chunks' = chunks]_vars

(* C7 witness: two ranges intersect the write, the first one's service      *)
(* refused it and the second was not asked                                  *)
C7_Witness ==
    /\ last.op = "image_receive"
    /\ last.ret # 0
    /\ Len(last.calls) = 1
    /\ Len(Intersecting(services, last.start, last.length)) = 2

(* C8: image_receive notifies each service range that intersects the write  *)
(* once, in ascending order, with the buffer position, the length and the   *)
(* service offset of the intersection (up to the first service that fails)  *)
C8_ReceiveCalls ==
    last.op = "image_receive" =>
        LET ks == Intersecting(services, last.start, last.length)
        IN /\ Len(last.calls) <= Len(ks)
           /\ last.ret = 0 => Len(last.calls) = Len(ks)
           /\ \A i \in 1..Len(last.calls) :
                  last.calls[i] = ExpectedCall(services, ks[i], last.start, last.length)

(* C9: a write to a range no service covers is accepted, and a fill of the  *)
(* same range returns the written bytes (image_fill leaves both maps alone, *)
(* so the fill that follows is image_fill in the state the write left)      *)
C9_ReceiveThenFill ==
    (/\ last.op = "image_receive"
     /\ Intersecting(services, last.start, last.length) = <<>>)
    =>
    /\ last.ret = 0
    /\ image_fill(services, chunks, NoErrors, CallerBuffer(255, last.length),
                  last.start, last.length)
           = [ret |-> 0, out |-> last.buf]

(* C9 witness: the write went into the middle of an older chunk, which now  *)
(* lies on both sides of it                                                 *)
C9_Witness ==
    /\ last.op = "image_receive"
    /\ last.ret = 0
    /\ last.length >= 1
    /\ DOMAIN services = {}
    /\ ChunkAt(chunks, last.start - 1) # {}
    /\ ChunkAt(chunks, last.start + last.length) # {}

-----------------------------------------------------------------------------
(* What the extent table says about a cluster *)

Holds(fe, c) == fe.starting_cluster <= c /\ c <= fe.ending_cluster

ExtentsOf(ext, c) == {i \in 1..Len(ext) : Holds(ext[i], c)}

(* Sorted by start, from cluster 0 to data_clusters + 1, no gap, no overlap *)
DisjointCover(ext, data_clusters) ==
    /\ Len(ext) >= 1
    /\ ext[1].starting_cluster = 0
    /\ ext[Len(ext)].ending_cluster = data_clusters + 1
    /\ \A i \in 1..Len(ext) : ext[i].starting_cluster <= ext[i].ending_cluster
    /\ \A i \in 2..Len(ext) :
           ext[i].starting_cluster = ext[i - 1].ending_cluster + 1

(* The 32-bit value in bytes 4i+1 .. 4i+4, little-endian *)
LE32(bytes, i) ==
    bytes[4 * i + 1] + 256 * bytes[4 * i + 2] + 65536 * bytes[4 * i + 3]
        + 16777216 * bytes[4 * i + 4]

(* The value the table gives FAT entry e through extent i *)
EntryVia(fe, e) ==
    IF is_literal(fe) THEN fe.next
    ELSE IF e < fe.ending_cluster THEN e + 1 ELSE fe.next

(* The FAT entry of cluster c as FatDataService::fill renders it *)
FatEntry(ext, c) == FatEntries(ext, c, 1)[1]

(* The clusters reached from c by the FAT links, -1 if no end is reached *)
RECURSIVE FollowChain(_, _, _)
FollowChain(ext, c, fuel) ==
    LET v == FatEntry(ext, c)
    IN IF v = FAT_END_OF_CHAIN THEN <<c>>
       ELSE IF fuel = 0 THEN <<c, -1>>
       ELSE <<c>> \o FollowChain(ext, v, fuel - 1)

IsChain(ch) == ch.kind # "none" /\ ch.n >= 1

(* C2: the extent list fat_finalize leaves is sorted and covers            *)
(* [0, data_clusters + 2) without gap or overlap, whatever was allocated   *)
C2_FinalizedCover ==
    finalized => DisjointCover(extents, g_data_clusters)

(* C3: FatDataService::fill writes length bytes whose little-endian 32-bit *)
(* values are, per entry e: the bad-cluster mark from data_clusters + 2 on, *)
(* else the successor, the next value or the literal value of the extent   *)
(* that holds e                                                            *)
C3_FillEntries ==
    last.op = "FatDataService::fill" =>
        /\ Len(last.out) = last.length
        /\ \A i \in 0..((last.length \div 4) - 1) :
               LET e == (last.start \div 4) + i
               IN IF e >= g_data_clusters + RESERVED_FAT_ENTRIES
                  THEN LE32(last.out, i) = FAT_BAD_CLUSTER
                  ELSE \E x \in ExtentsOf(extents, e) :
                           LE32(last.out, i) = EntryVia(extents[x], e)

(* C5: during construction every cluster handed out lies in                *)
(* [2, data_clusters + 2), is held by exactly one extent, and was handed   *)
(* out once only                                                           *)
C5_HandedOutOnce ==
    ~finalized =>
        \A i \in 1..Len(chains) :
            LET cl == ChainClusters(chains[i])
            IN \A a \in 1..Len(cl) :
                   /\ RESERVED_FAT_ENTRIES <= cl[a]
                   /\ cl[a] < g_data_clusters + RESERVED_FAT_ENTRIES
                   /\ Cardinality(ExtentsOf(extents \o extents_from_end, cl[a])) = 1
                   /\ \A b \in 1..Len(cl) : cl[b] = cl[a] => b = a
                   /\ \A j \in 1..Len(chains) :
                          j # i => cl[a] \notin SeqRange(ChainClusters(chains[j]))

(* C6: in the finalized FAT the links from the start of every allocated    *)
(* chain visit its n clusters in ascending order, then the clusters its    *)
(* extensions returned in call order, and end at end-of-chain, without     *)
(* touching another chain                                                  *)
C6_ChainLinks ==
    finalized =>
        \A i \in 1..Len(chains) :
            IsChain(chains[i]) =>
                /\ FollowChain(extents, chains[i].start,
                               g_data_clusters + RESERVED_FAT_ENTRIES + 2)
                       = ChainClusters(chains[i])
                /\ \A j \in 1..Len(chains) :
                       j # i => SeqRange(ChainClusters(chains[i]))
                                    \cap SeqRange(ChainClusters(chains[j])) = {}

(* C10: a dir_add_entry that needs another cluster while no free cluster   *)
(* is left between the front and the tail sequence returns false, and the  *)
(* directories, the extent tables and the composer's maps stay as they were *)
C10_AddEntryWhenFull ==
    [][(/\ last'.op = "dir_add_entry"
        /\ last'.full
        /\ last'.needed)
       =>
       (/\ last'.ret = 0
        /\ UNCHANGED <<dirservices, extents, extents_from_end, imageVars>>)]_vars

-----------------------------------------------------------------------------
(* fat_extend_chain on a cluster that is not part of a chain *)

(* c lies in a literal extent of the table, or in none *)
NotInChain(ext, c) ==
    \/ ExtentsOf(ext, c) = {}
    \/ \E i \in ExtentsOf(ext, c) : is_literal(ext[i])

(* C11: fat_extend_chain(c) returns 0 and leaves the extent table as it is *)
(* when c lies in a literal extent (the reserved entries 0 and 1 among     *)
(* them) or in no extent at all                                            *)
C11_ExtendLiteral ==
    [][(/\ last'.op = "fat_extend_chain"
        /\ NotInChain(extents, last'.arg))
       =>
       (/\ last'.ret = 0
        /\ extents' = extents)]_vars

-----------------------------------------------------------------------------
(* image_fill when a service's fill fails *)

(* C12: when a service's fill fails during image_fill, image_fill returns  *)
(* that service's value, the bytes before the failing segment are the ones *)
(* a fill without the failure produces, and every byte of buf from the     *)
(* failing segment to the end of the request is zero                       *)
C12_FillError ==
    (last.op = "image_fill" /\ last.ret # 0) =>
        LET ok == image_fill(services, chunks, NoErrors, last.buf,
                             last.start, last.length)
        IN /\ Len(last.out) = last.length
           /\ \E k \in 1..last.length :
                  LET p == last.start + k - 1
                  IN /\ ChunkAt(chunks, p) = {}
                     /\ \E r \in ServiceAt(services, p) :
                            last.errs[services[r].service] = last.ret
                     /\ \A i \in 1..(k - 1) : last.out[i] = ok.out[i]
                     /\ \A i \in k..last.length : last.out[i] = 0

(* The FAT value the tail table gives cluster c before fat_finalize merges it *)
TailEntry(efe, c) ==
    LET i == CHOOSE i \in ExtentsOf(efe, c) : TRUE
    IN EntryVia(efe[i], c)

(* C20: with G clusters between the last front cluster and the first tail  *)
(* cluster, fat_finalize(m) makes the lowest min(m, G) entries of the gap  *)
(* read as unallocated and the other G - min(m, G) as bad, for every m,    *)
(* and leaves the entry of every allocated cluster as it was               *)
C20_FinalizeSplit ==
    [][LET lo == first_free_cluster(extents)
           hi == last_free_cluster(extents_from_end, g_data_clusters)
           G == hi - lo + 1
           free == Min(last'.arg, G)
       IN (/\ last'.op = "fat_finalize"
           /\ ~finalized
           /\ G >= 0
           /\ hi <= g_data_clusters + 1)
          => /\ \A c \in lo..(lo + free - 1) : FatEntry(extents', c) = FAT_UNALLOCATED
             /\ \A c \in (lo + free)..hi : FatEntry(extents', c) = FAT_BAD_CLUSTER
             /\ \A c \in RESERVED_FAT_ENTRIES..(lo - 1) :
                    FatEntry(extents', c) = FatEntry(extents, c)
             /\ \A c \in (hi + 1)..(g_data_clusters + 1) :
                    FatEntry(extents', c) = TailEntry(extents_from_end, c)]_vars

-----------------------------------------------------------------------------
(* dir_add_entry: the calls it refuses *)

(* C18: dir_add_entry returns false and changes nothing (directory buffers, *)
(* extent tables, composer maps, short-name counter) when the name has more *)
(* than 256 code units or the parent is not the starting cluster of a       *)
(* directory, parent 0 standing for the root directory at cluster 2; a name *)
(* of exactly 256 code units is accepted                                    *)
C18_AddEntryRefused ==
    [][last'.op = "dir_add_entry" =>
           LET parent == IF last'.arg = 0 THEN 2 ELSE last'.arg
               refused == last'.length > 256 \/ parent \notin DOMAIN dirservices
           IN /\ refused =>
                  /\ last'.ret = 0
                  /\ UNCHANGED <<dirservices, extents, extents_from_end, imageVars,
                                 unique_name_counter>>
              /\ (~refused /\ ~last'.needed) =>
                  /\ last'.ret = 1
                  /\ Len(dirservices'[parent].data) > Len(dirservices[parent].data)
                  /\ \A c \in DOMAIN dirservices \ {parent} :
                         dirservices'[c] = dirservices[c]]_vars

(* A name of 257 units was refused for a root directory, named as parent 0, *)
(* that holds names of 256 units                                            *)
C18_Witness ==
    /\ last.op = "dir_add_entry"
    /\ last.arg = 0
    /\ last.length = 257
    /\ last.ret = 0
    /\ ROOT_DIR_CLUSTER \in DOMAIN dirservices
    /\ Len(dirservices[ROOT_DIR_CLUSTER].data) >= 2 * 21 * DIR_ENTRY_SIZE

-----------------------------------------------------------------------------
(* The directory records of one name *)

(* Byte b of the 32-byte record that begins at offset rec of the data *)
RecByte(data, rec, b) == data[rec + b + 1]

(* The FAT checksum of bytes 0..10 of the record at rec, from byte i on *)
RECURSIVE FatChecksum(_, _, _, _)
FatChecksum(data, rec, i, sum) ==
    IF i > 10 THEN sum
    ELSE FatChecksum(data, rec, i + 1,
                     ((sum % 2) * 128 + (sum \div 2) + RecByte(data, rec, i)) % 256)

(* C15: a successful dir_add_entry of a name of L code units appends        *)
(* exactly 1 + ceil(L / 13) records to the parent: ceil(L / 13) long-name   *)
(* records (byte 11 = 0x0F) whose sequence numbers descend from ceil(L/13)  *)
(* to 1 in storage order, only the first with the 0x40 flag, then one short *)
(* entry; byte 13 of each long-name record is the FAT checksum of the short *)
(* entry's bytes 0..10                                                      *)
C15_NameRecords ==
    [][(last'.op = "dir_add_entry" /\ last'.ret = 1) =>
           LET parent == IF last'.arg = 0 THEN 2 ELSE last'.arg
               L == last'.length
               n == (L + 12) \div 13
               old == dirservices[parent].data
               new == dirservices'[parent].data
               short == Len(old) + 32 * n
           IN /\ Len(new) = Len(old) + 32 * (1 + n)
              /\ SubSeq(new, 1, Len(old)) = old
              /\ \A j \in 0..(n - 1) :
                    LET rec == Len(old) + 32 * j
                    IN /\ RecByte(new, rec, 11) = 15
                       /\ RecByte(new, rec, 0) = (n - j) + (IF j = 0 THEN 64 ELSE 0)
                       /\ RecByte(new, rec, 13) = FatChecksum(new, short, 0, 0)
              /\ RecByte(new, short, 11) # 15]_vars

(* A name of 14 code units was added behind other entries: two long-name   *)
(* records and the short entry                                              *)
C15_Witness ==
    /\ last.op = "dir_add_entry"
    /\ last.ret = 1
    /\ last.length = 14
    /\ last.start > 0
    /\ Len(dirservices[IF last.arg = 0 THEN 2 ELSE last.arg].data) = last.start + 96

(* The byte offsets of the 13 code units of a long-name record *)
LfnOffsets == <<1, 3, 5, 7, 9, 14, 16, 18, 20, 22, 24, 28, 30>>

(* The offset of the long-name record with sequence number k among the n   *)
(* records that begin at offset first                                      *)
LfnRecord(data, first, n, k) ==
    first + 32 * (CHOOSE j \in 0..(n - 1) : RecByte(data, first + 32 * j, 0) % 64 = k)

(* The code units of the n long-name records that begin at offset first,   *)
(* read in ascending sequence-number order                                 *)
DecodeName(data, first, n) ==
    [u \in 1..(13 * n) |->
        LET rec == LfnRecord(data, first, n, ((u - 1) \div 13) + 1)
            off == LfnOffsets[((u - 1) % 13) + 1]
        IN RecByte(data, rec, off) + 256 * RecByte(data, rec, off + 1)]

(* C16: the long-name records of an entry, decoded in ascending sequence-   *)
(* number order, give the name passed to dir_add_entry with its terminator, *)
(* then 0xFFFF in every slot behind the terminator; a name whose length     *)
(* without the terminator is a multiple of 13 has a record for the          *)
(* terminator alone                                                         *)
C16_NameRoundTrip ==
    [][(last'.op = "dir_add_entry" /\ last'.ret = 1) =>
           LET parent == IF last'.arg = 0 THEN 2 ELSE last'.arg
               filename == last'.buf
               L == Len(filename)
               new == dirservices'[parent].data
               first == Len(dirservices[parent].data)
               n == ((Len(new) - first) \div 32) - 1
               units == DecodeName(new, first, n)
           IN /\ 13 * n >= L
              /\ SubSeq(units, 1, L) = filename
              /\ filename[L] = 0
              /\ \A u \in (L + 1)..(13 * n) : units[u] = 65535
              /\ ((L - 1) % 13 = 0) =>
                     /\ units[13 * (n - 1) + 1] = 0
                     /\ \A u \in (13 * (n - 1) + 2)..(13 * n) : units[u] = 65535]_vars

(* A name of 13 characters above 0xFF and the terminator was added *)
C16_Witness ==
    /\ last.op = "dir_add_entry"
    /\ last.ret = 1
    /\ last.buf = Name(14, 78)
    /\ Len(dirservices[IF last.arg = 0 THEN 2 ELSE last.arg].data) = last.start + 96

-----------------------------------------------------------------------------
(* The clusters of a directory *)

(* Bytes [k * 4096, (k + 1) * 4096) of the data, zero-padded *)
DataCluster(data, k) ==
    [i \in 1..CLUSTER_SIZE |->
        IF k * CLUSTER_SIZE + i <= Len(data) THEN data[k * CLUSTER_SIZE + i] ELSE 0]

(* C17: while free clusters remain, every directory has a FAT chain of      *)
(* exactly max(1, ceil(|data| / 4096)) clusters, and image_fill of the k-th *)
(* cluster of the chain returns bytes [k * 4096, (k + 1) * 4096) of the     *)
(* directory's entries, zero-padded behind the end of the data              *)
C17_DirClusters ==
    ~FatFull(extents, extents_from_end, g_data_clusters) =>
        \A c \in DOMAIN dirservices :
            LET data == dirservices[c].data
                want == Max(1, (Len(data) + 4095) \div 4096)
                chain == FollowChain(extents, c, want + 1)
            IN /\ Len(chain) = want
               /\ \A k \in 0..(want - 1) :
                      LET r == image_fill(services, chunks, NoErrors,
                                          CallerBuffer(255, 4096),
                                          fat_cluster_pos(g_data_clusters, chain[k + 1]),
                                          4096)
                      IN r.ret = 0 /\ r.out = DataCluster(data, k)

(* The root directory has grown into a second cluster that is not adjacent *)
(* to its first one, and a free cluster is left                            *)
C17_Witness ==
    /\ ~FatFull(extents, extents_from_end, g_data_clusters)
    /\ ROOT_DIR_CLUSTER \in DOMAIN dirservices
    /\ Len(dirservices[ROOT_DIR_CLUSTER].data) > CLUSTER_SIZE
    /\ FollowChain(extents, ROOT_DIR_CLUSTER, 3) = <<2, 4>>

-----------------------------------------------------------------------------
(* File mappings *)

(* C19: filemap_add(path, size) with size > 0, on a volume with room for   *)
(* the file, allocates ceil(size / 4096) clusters at the tail, returns the *)
(* first of them and binds the file service to exactly size bytes from      *)
(* fat_cluster_pos(start) on with service offset 0: image_fill of byte p of *)
(* the mapping gives byte p of the file, and the bytes from size to the end *)
(* of the last cluster lie in no service range and read as zero             *)
C19_FilemapAdd ==
    [][LET lo == first_free_cluster(extents)
           hi == last_free_cluster(extents_from_end, g_data_clusters)
           size == last'.arg
           n == (size + 4095) \div 4096
           start == last'.ret
           pos == fat_cluster_pos(g_data_clusters, start)
           f == Filemap(Cardinality(DOMAIN host'))
           Read(p) == image_fill(services', chunks', NoErrors, CallerBuffer(255, 1),
                                 pos + p, 1)
       IN (/\ last'.op = "filemap_add"
           /\ hi <= g_data_clusters + 1
           /\ n <= hi - lo + 1)
          => /\ start = hi - n + 1
             /\ extents_from_end' =
                    Append(extents_from_end,
                           [starting_cluster |-> start, ending_cluster |-> hi,
                            next |-> FAT_END_OF_CHAIN, prev |-> FAT_END_OF_CHAIN])
             /\ pos \in DOMAIN services'
             /\ services'[pos] = [length |-> size, offset |-> 0, service |-> f]
             /\ \A p \in {0, size - 1} :
                    Read(p) = [ret |-> 0, out |-> <<FileByte(f, p)>>]
             /\ \A q \in {size, 4096 * n - 1} :
                    (size <= q /\ q < 4096 * n) =>
                        /\ ServiceAt(services', pos + q) = {}
                        /\ Read(q) = [ret |-> 0, out |-> <<0>>]]_vars

(* The ranges of file services that [start, start + length) intersects *)
FileRangesIn(sv, start, length) ==
    {k \in SeqRange(Intersecting(sv, start, length)) : IsFilemap(sv[k].service)}

(* C14: image_receive on a range that intersects a file mapping returns    *)
(* EROFS, the errno Filemap::receive refuses every write with, stores no   *)
(* chunk, and image_fill returns the same bytes for the file region before *)
(* and after                                                               *)
C14_FileWriteRefused ==
    [][(/\ last'.op = "image_receive"
        /\ FileRangesIn(services, last'.start, last'.length) # {})
       =>
       (/\ last'.ret = 30
        /\ \E i \in 1..Len(last'.calls) :
               /\ IsFilemap(last'.calls[i].service)
               /\ last'.errs[last'.calls[i].service] = 30
        /\ chunks' = chunks
        /\ \A k \in FileRangesIn(services, last'.start, last'.length) :
               \A p \in {k, k + services[k].length - 1} :
                   image_fill(services', chunks', NoErrors, CallerBuffer(255, 1), p, 1)
                       = image_fill(services, chunks, NoErrors, CallerBuffer(255, 1),
                                    p, 1))]_vars

-----------------------------------------------------------------------------
(* Reads of a volume whose host files disappear *)

(* The ranges of [from, from + len) whose host file cannot be read *)
GoneRanges(from, len) ==
    {k \in FileRangesIn(services, from, len) : host[services[k].service] # 0}

-----------------------------------------------------------------------------
(* Positions of the data clusters *)

(* The first and last data cluster and the clusters the extents begin and  *)
(* end with, as far as they are data clusters of the volume                *)
ClustersNamed ==
    {c \in {RESERVED_FAT_ENTRIES, g_data_clusters + 1}
             \cup {extents[i].starting_cluster : i \in 1..Len(extents)}
             \cup {extents[i].ending_cluster : i \in 1..Len(extents)}
             \cup {extents_from_end[i].starting_cluster : i \in 1..Len(extents_from_end)}
             \cup {extents_from_end[i].ending_cluster : i \in 1..Len(extents_from_end)} :
         RESERVED_FAT_ENTRIES <= c /\ c < g_data_clusters + RESERVED_FAT_ENTRIES}

(* C21: for every data cluster c of the volume fat_cluster_pos(c) is       *)
(* 32 * 512 + fat_byte_size + (c - 2) * 4096 without wrap-around, and the  *)
(* 4096-byte ranges of two clusters are disjoint and ordered as the        *)
(* clusters are                                                            *)
C21_ClusterPos ==
    \A c \in ClustersNamed :
        /\ fat_cluster_pos(g_data_clusters, c) =
               32 * 512 + g_fat_size + (c - 2) * 4096
        /\ \A d \in ClustersNamed :
               c < d => fat_cluster_pos(g_data_clusters, c) + 4096
                            <= fat_cluster_pos(g_data_clusters, d)

-----------------------------------------------------------------------------
(* How long received data overrides a service *)

(* image_fill of the single byte at position p, in the maps sv and cs *)
FillByte(sv, cs, p) == image_fill(sv, cs, NoErrors, CallerBuffer(255, 1), p, 1)

(* C22: received data overrides the service of its range only until       *)
(* image_clear_data or image_register is applied to the range: after       *)
(* image_register(S, start, length, off) image_fill gives the output of S  *)
(* at every position of [start, start + length), also where data had been  *)
(* received, and after image_clear_data(start, length) it gives at every   *)
(* position of the range the output of the service registered there        *)
C22_OverrideUntil ==
    [][/\ (last'.op = "image_register" /\ last'.length > 0) =>
              \A p \in last'.start..(last'.start + last'.length - 1) :
                  FillByte(services', chunks', p) =
                      [ret |-> 0,
                       out |-> <<ServiceFill(last'.arg,
                                     services'[last'.start].offset + (p - last'.start))>>]
       /\ last'.op = "image_clear_data" =>
              \A p \in last'.start..(last'.start + last'.length - 1) :
                  FillByte(services', chunks', p) =
                      [ret |-> 0,
                       out |-> <<IF ServiceAt(services', p) = {} THEN 0
                                 ELSE LET k == MinOf(ServiceAt(services', p))
                                      IN ServiceFill(services'[k].service,
                                             services'[k].offset + (p - k))>>]]_vars

-----------------------------------------------------------------------------
(* What image_clear_services removes *)

(* The service and service offset the service map sv gives position p *)
Asked(sv, p) ==
    IF ServiceAt(sv, p) = {} THEN [service |-> 0, offset |-> 0]
    ELSE LET k == MinOf(ServiceAt(sv, p))
         IN [service |-> sv[k].service, offset |-> sv[k].offset + (p - k)]

(* The ranges of service x in sv that lie entirely inside [s, s + l) *)
RangesInside(sv, x, s, l) ==
    {k \in DOMAIN sv : sv[k].service = x /\ s <= k /\ k + sv[k].length <= s + l}

(* The ranges of service x in sv that stick out of the nonempty [s, s + l)  *)
(* on both sides                                                           *)
RangesAround(sv, x, s, l) ==
    {k \in DOMAIN sv : sv[k].service = x /\ l > 0 /\ k < s /\ s + l < k + sv[k].length}

(* C23: image_clear_services(s, l) removes the service coverage of exactly *)
(* [s, s + l): no position inside is covered afterwards, every position    *)
(* outside keeps its service and service offset (and image_fill asks       *)
(* accordingly); a range that sticks out on both sides is split in two,    *)
(* the right piece starting at s + l with the service offset increased by  *)
(* s + l - range start; each service loses one reference for each of its   *)
(* ranges entirely inside [s, s + l), and gains one for each range split;  *)
(* a clear of length 0 changes nothing                                     *)
C23_ClearServicesExact ==
    [][last'.op = "image_clear_services" =>
           LET s == last'.start
               l == last'.length
           IN /\ \A p \in 0..MaxPos :
                     IF s <= p /\ p < s + l
                     THEN ServiceAt(services', p) = {}
                     ELSE /\ Asked(services', p) = Asked(services, p)
                          /\ FillByte(services', EmptyMap, p) =
                                 FillByte(services, EmptyMap, p)
              /\ \A k \in DOMAIN services :
                     (l > 0 /\ k < s /\ s + l < k + services[k].length) =>
                         /\ k \in DOMAIN services'
                         /\ services'[k] = [services[k] EXCEPT !.length = s - k]
                         /\ s + l \in DOMAIN services'
                         /\ services'[s + l] =
                                [length |-> k + services[k].length - (s + l),
                                 offset |-> services[k].offset + (s + l - k),
                                 service |-> services[k].service]
              /\ \A x \in ServiceIds :
                     RefCount(refs', x) =
                         RefCount(refs, x)
                             - Cardinality(RangesInside(services, x, s, l))
                             + Cardinality(RangesAround(services, x, s, l))
              /\ chunks' = chunks]_vars

(* C23 witness: the clear took the middle out of a range, whose service now *)
(* holds two references, one for each of the two pieces left               *)
C23_Witness ==
    /\ last.op = "image_clear_services"
    /\ last.length > 0
    /\ \E k \in DOMAIN services :
           /\ k < last.start
           /\ k + services[k].length = last.start
           /\ last.start + last.length \in DOMAIN services
           /\ services[last.start + last.length].service = services[k].service
           /\ services[last.start + last.length].offset =
                  services[k].offset + (last.start + last.length - k)
           /\ RefCount(refs, services[k].service) = 2

-----------------------------------------------------------------------------
(* What image_clear_data removes *)

(* The stored byte at position p of the data map cs, -1 where none is stored *)
StoredAt(cs, p) ==
    IF ChunkAt(cs, p) = {} THEN -1
    ELSE LET k == MinOf(ChunkAt(cs, p)) IN cs[k][p - k + 1]

(* C24: after image_clear_data(s, l) no stored data is left on [s, s + l), *)
(* and every position outside the range holds the stored byte it held      *)
(* before: a chunk overlapping the start of the range keeps its bytes      *)
(* before s, and a chunk that sticks out past s + l keeps at the same      *)
(* positions the bytes it held from s + l on                               *)
C24_ClearDataExact ==
    [][last'.op = "image_clear_data" =>
           \A p \in 0..MaxPos :
               IF last'.start <= p /\ p < last'.start + last'.length
               THEN StoredAt(chunks', p) = -1
               ELSE StoredAt(chunks', p) = StoredAt(chunks, p)]_vars

-----------------------------------------------------------------------------
(* The two maps are cleared independently *)

(* C25: image_clear_services leaves the data map as it is, and image_fill  *)
(* of the cleared range still returns the bytes received there (and 0      *)
(* where none were); image_clear_data leaves the service map and every     *)
(* reference count as they are, and image_fill of the cleared range        *)
(* returns the output of the services registered there                     *)
C25_ClearsIndependent ==
    [][LET s == last'.start
           l == last'.length
           r == image_fill(services', chunks', NoErrors, CallerBuffer(255, l), s, l)
       IN /\ last'.op = "image_clear_services" =>
                 /\ chunks' = chunks
                 /\ r.ret = 0
                 /\ r.out = [i \in 1..l |->
                                IF StoredAt(chunks, s + i - 1) = -1 THEN 0
                                ELSE StoredAt(chunks, s + i - 1)]
          /\ last'.op = "image_clear_data" =>
                 /\ services' = services
                 /\ refs' = refs
                 /\ r.ret = 0
                 /\ r.out = [i \in 1..l |-> ByteAt(services, EmptyMap, s + i - 1)]]_vars

(* C25 witness: data was received over a registered range and then         *)
(* cleared; the service is registered as before and its output is read     *)
C25_Witness ==
    /\ last.op = "image_clear_data"
    /\ last.length > 0
    /\ chunks = EmptyMap
    /\ \A p \in last.start..(last.start + last.length - 1) :
           /\ ServiceAt(services, p) # {}
           /\ FillByte(services, chunks, p).out[1] = ByteAt(services, EmptyMap, p)
    /\ \E x \in ServiceIds : RefCount(refs, x) = 1

(* C25 second witness: the service under received data was removed, and    *)
(* the received bytes are read                                             *)
C25_WitnessServices ==
    /\ last.op = "image_clear_services"
    /\ last.length > 0
    /\ services = EmptyMap
    /\ \A x \in ServiceIds : RefCount(refs, x) = 0
    /\ \A p \in last.start..(last.start + last.length - 1) :
           /\ StoredAt(chunks, p) # -1
           /\ FillByte(services, chunks, p).out[1] = StoredAt(chunks, p)

-----------------------------------------------------------------------------
(* The final-release hook *)

(* The service-map entries of sv that name service x *)
EntriesOf(sv, x) == {k \in DOMAIN sv : sv[k].service = x}

(* C26: in every composer call the final-release hook of a service runs    *)
(* once if the call brings its reference count to 0 (from a positive       *)
(* count, or through the take-and-release of a registration of length 0)   *)
(* and not at all otherwise, and when it has run no service-map entry      *)
(* names the service: registering a never-referenced service with length 0 *)
(* runs it and inserts nothing, registering another service over the only  *)
(* range of S or clearing that range runs it for S, and registering S      *)
(* again over its own only range does not                                  *)
C26_FinalRelease ==
    [][last'.n = last.n + 1 =>
           \A x \in ServiceIds :
               LET fired == FinalDerefs(refs', x) - FinalDerefs(refs, x)
                   zeroed == /\ RefCount(refs', x) = 0
                             /\ \/ RefCount(refs, x) > 0
                                \/ last'.op = "image_register" /\ last'.arg = x
               IN /\ fired = (IF zeroed THEN 1 ELSE 0)
                  /\ fired = 1 => EntriesOf(services', x) = {}
                  /\ EntriesOf(services', x) # {} => RefCount(refs', x) > 0
                  /\ (/\ last'.op = "image_register" /\ last'.arg = x
                      /\ last'.length = 0 /\ RefCount(refs, x) = 0)
                         => fired = 1 /\ services' = services
                  /\ (/\ last'.op = "image_register" /\ last'.arg = x
                      /\ last'.length > 0)
                         => fired = 0
                  /\ (/\ last'.op \in {"image_register", "image_clear_services"}
                      /\ last'.arg # x
                      /\ EntriesOf(services, x) # {}
                      /\ \A k \in EntriesOf(services, x) :
                             /\ last'.start <= k
                             /\ k + services[k].length <= last'.start + last'.length)
                         => fired = 1]_vars

(* C26 witness: S was registered again over its own only range, which did  *)
(* not run its hook, after a registration of length 0 of the other         *)
(* service had run that one's                                              *)
C26_Witness ==
    /\ last.op = "image_register"
    /\ last.length > 0
    /\ \E x, y \in ServiceIds :
           /\ x # y
           /\ last.arg = x
           /\ EntriesOf(services, x) = {last.start}
           /\ RefCount(refs, x) = 1
           /\ FinalDerefs(refs, x) = 0
           /\ FinalDerefs(refs, y) = 1
           /\ EntriesOf(services, y) = {}

(* C26 second witness: registering the other service over the only range   *)
(* of S ran the hook of S                                                  *)
C26_WitnessReplace ==
    /\ last.op = "image_register"
    /\ last.length > 0
    /\ \E x \in ServiceIds :
           /\ x # last.arg
           /\ FinalDerefs(refs, x) = 1
           /\ RefCount(refs, x) = 0
           /\ RefCount(refs, last.arg) = 1

-----------------------------------------------------------------------------
(* The calls image_fill makes *)

(* No stored chunk intersects [start, start + length) *)
NoChunkIn(cs, start, length) ==
    \A k \in DOMAIN cs : ~(Max(k, start) < Min(k + Len(cs[k]), start + length))

(* C27: when no stored chunk intersects the request, image_fill(buf,       *)
(* start, length) calls fill once for each service range that intersects   *)
(* the request, in ascending order of position, with the buffer position,  *)
(* the length and the service offset of the intersection (also in a range  *)
(* longer than a machine word); all of buf[0..length) and nothing else is  *)
(* written, with the services' output and 0 where no range covers          *)
C27_FillCalls ==
    (/\ last.op = "image_fill"
     /\ NoChunkIn(chunks, last.start, last.length))
    =>
    LET ks == Intersecting(services, last.start, last.length)
    IN /\ last.ret = 0
       /\ Len(last.calls) = Len(ks)
       /\ \A i \in 1..Len(ks) :
              last.calls[i] = ExpectedCall(services, ks[i], last.start, last.length)
       /\ Len(last.out) = last.length
       /\ \A i \in 1..last.length :
              last.out[i] = ByteAt(services, EmptyMap, last.start + i - 1)

(* C27 witness: a fill across the end of the range longer than a machine   *)
(* word: one call, at a service offset beyond the word, and zeroes behind  *)
C27_Witness ==
    /\ last.op = "image_fill"
    /\ NoChunkIn(chunks, last.start, last.length)
    /\ chunks # EmptyMap
    /\ Len(last.calls) = 1
    /\ last.calls[1].offset >= 1073741824
    /\ last.calls[1].length < last.length
    /\ last.out[last.length] = 0

(* C27 second witness: one service is registered at two ranges with a gap  *)
(* between them and is called for each                                     *)
C27_WitnessTwoRanges ==
    /\ last.op = "image_fill"
    /\ Len(last.calls) = 2
    /\ last.calls[1].service = last.calls[2].service
    /\ last.calls[1].bufpos + last.calls[1].length < last.calls[2].bufpos

-----------------------------------------------------------------------------
(* Allocation at the two ends *)

(* The clusters handed out so far at the front (kind "beginning", and the  *)
(* clusters fat_extend_chain returned) and at the tail (kind "end")        *)
FrontClusters(chs) ==
    UNION {IF chs[i].kind = "end" THEN SeqRange(chs[i].ext)
           ELSE SeqRange(ChainClusters(chs[i])) \ (IF chs[i].kind = "none"
                                                   THEN {chs[i].start} ELSE {})
           : i \in 1..Len(chs)}
TailClusters(chs) ==
    UNION {IF chs[i].kind = "end" THEN {chs[i].start + j - 1 : j \in 1..chs[i].n}
           ELSE {} : i \in 1..Len(chs)}

(* The FAT entries of clusters c .. c + n - 1 once the table is finalized  *)
(* with every free cluster left usable                                     *)
FinalEntries(ext, efe, data_clusters, c, n) ==
    FatEntries(fat_finalize(ext, efe, data_clusters, data_clusters), c, n)

(* C28: fat_alloc_beginning(n) returns the cluster just after the highest  *)
(* cluster handed out at the front (2 when there is none) and              *)
(* fat_alloc_end(n) returns L - n + 1, L being one below the lowest        *)
(* cluster handed out at the tail (data_clusters + 1 when there is none);  *)
(* neither changes an extent made earlier, and the n FAT entries of the    *)
(* new chain link ascending and end in end-of-chain                        *)
C28_AllocAdjacent ==
    [][LET n == last'.arg
           r == last'.ret
           Links == [i \in 1..n |-> IF i = n THEN FAT_END_OF_CHAIN ELSE r + i]
       IN /\ last'.op = "fat_alloc_beginning" =>
                 /\ r = MaxOf({1} \cup FrontClusters(chains)) + 1
                 /\ Len(extents') = Len(extents) + 1
                 /\ SubSeq(extents', 1, Len(extents)) = extents
                 /\ extents_from_end' = extents_from_end
                 /\ FinalEntries(extents', extents_from_end', g_data_clusters, r, n) = Links
          /\ last'.op = "fat_alloc_end" =>
                 /\ r = MinOf({g_data_clusters + 2} \cup TailClusters(chains)) - 1 - n + 1
                 /\ Len(extents_from_end') = Len(extents_from_end) + 1
                 /\ SubSeq(extents_from_end', 1, Len(extents_from_end)) = extents_from_end
                 /\ extents' = extents
                 /\ FinalEntries(extents', extents_from_end', g_data_clusters, r, n) = Links
      ]_vars

-----------------------------------------------------------------------------
(* Extension of a chain *)

(* The extent table as fat_finalize would leave it with every free cluster *)
(* usable                                                                  *)
Finalized(ext, efe, data_clusters) ==
    fat_finalize(ext, efe, data_clusters, data_clusters)

(* C29: a fat_extend_chain(c) that does not return 0 appends exactly one   *)
(* cluster to the chain that holds c: the cluster r returned is the lowest *)
(* cluster above everything handed out at the front, the links from c end  *)
(* where they ended before and go on to r, whose entry is end-of-chain,    *)
(* and the FAT entry of every other cluster handed out is as it was        *)
C29_ExtendAppendsOne ==
    [][(last'.op = "fat_extend_chain" /\ last'.ret # 0) =>
           LET c == last'.arg
               r == last'.ret
               fuel == g_data_clusters + RESERVED_FAT_ENTRIES + 2
               fin0 == Finalized(extents, extents_from_end, g_data_clusters)
               fin1 == Finalized(extents', extents_from_end', g_data_clusters)
               was == FollowChain(fin0, c, fuel)
               t == was[Len(was)]
           IN /\ r = MaxOf({1} \cup FrontClusters(chains)) + 1
              /\ t # -1
              /\ FollowChain(fin1, c, fuel) = Append(was, r)
              /\ FatEntry(fin1, t) = r
              /\ FatEntry(fin1, r) = FAT_END_OF_CHAIN
              /\ \A e \in (FrontClusters(chains) \cup TailClusters(chains)) \ {t} :
                     FatEntry(fin1, e) = FatEntry(fin0, e)
              /\ extents_from_end' = extents_from_end]_vars

-----------------------------------------------------------------------------
(* C30: FatDataService::receive returns EIO whenever a written entry      *)
(* differs from the value the FAT holds for it and the entry is entry 0   *)
(* or 1 or the value held is the bad-cluster marker, as it is for the     *)
(* padding entries past the data clusters; a write whose entries all      *)
(* equal the values held returns 0 and changes nothing, whatever the      *)
(* entries' indexes.                                                      *)

(* The entries the FAT holds where the last write was made, given the table *)
Held(ext) == FatEntries(ext, last.start \div 4, last.length \div 4)

C30_RefusedWrites ==
    [][(last'.op = "FatDataService::receive" /\ last'.n = last.n + 1) =>
        LET entry_nr == last'.start \div 4
            entries == last'.length \div 4
            held == FatEntries(extents, entry_nr, entries)
        IN /\ (\E i \in 0..(entries - 1) :
                  /\ le32toh(last'.buf, i) # held[i + 1]
                  /\ \/ entry_nr + i < RESERVED_FAT_ENTRIES
                     \/ held[i + 1] = FAT_BAD_CLUSTER)
              => last'.ret = EIO
           /\ (\A i \in 0..(entries - 1) : le32toh(last'.buf, i) = held[i + 1])
              => (last'.ret = 0 /\ extents' = extents)]_vars

(* A write of another value to a padding entry has been refused *)
C30_Witness ==
    /\ last.op = "FatDataService::receive"
    /\ last.length = 4
    /\ last.start \div 4 >= g_data_clusters + RESERVED_FAT_ENTRIES
    /\ Held(extents)[1] = FAT_BAD_CLUSTER
    /\ le32toh(last.buf, 0) # FAT_BAD_CLUSTER
    /\ last.ret = EIO

(* A write of the values held to entries 0 and 1 has been accepted *)
C30_WitnessEqual ==
    /\ last.op = "FatDataService::receive"
    /\ last.start = 0
    /\ last.length = 8
    /\ \A i \in 0..1 : le32toh(last.buf, i) = Held(extents)[i + 1]
    /\ last.ret = 0

(* A write that changes entry 0 or entry 1 has been refused *)
C30_WitnessReserved ==
    /\ last.op = "FatDataService::receive"
    /\ last.start = 0
    /\ \E i \in 0..((last.length \div 4) - 1) :
           i < RESERVED_FAT_ENTRIES /\ le32toh(last.buf, i) # Held(extents)[i + 1]
    /\ last.ret = EIO

-----------------------------------------------------------------------------
(* C31: after a write that FatDataService::receive accepted (returned 0), *)
(* the FAT that FatDataService::fill renders from the extent table over   *)
(* the written entries equals the written buffer, entry for entry,        *)
(* whichever update path each entry took.                                 *)
C31_WriteThenRead ==
    [][(last'.op = "FatDataService::receive" /\ last'.n = last.n + 1
            /\ last'.ret = 0)
        => FatDataService_fill(extents', last'.length, last'.start) = last'.buf]_vars

-----------------------------------------------------------------------------
(* C32: after every write that FatDataService::receive accepted,          *)
(* fat_check_invariants passes: the reserved entries are there, the       *)
(* extents run from cluster 0 to cluster data_clusters + 1 without gap,   *)
(* overlap or inverted extent, and no chain extent's next is the          *)
(* unallocated or the bad-cluster marker.                                 *)
C32_InvariantsAfterWrite ==
    [][(last'.op = "FatDataService::receive" /\ last'.n = last.n + 1
            /\ last'.ret = 0 /\ fat_check_invariants(extents, g_data_clusters))
        => fat_check_invariants(extents', g_data_clusters')]_vars

(* Two writes were accepted and the check passes on a table that only     *)
(* writes can make: an unallocated extent behind a bad-cluster extent     *)
C32_Witness ==
    /\ last.op = "FatDataService::receive"
    /\ last.n = 2
    /\ last.ret = 0
    /\ fat_check_invariants(extents, g_data_clusters)
    /\ \E i, j \in 1..Len(extents) :
           /\ i < j
           /\ is_literal(extents[i]) /\ extents[i].next = FAT_BAD_CLUSTER
           /\ is_literal(extents[j]) /\ extents[j].next = FAT_UNALLOCATED

-----------------------------------------------------------------------------
(* C33: on the finished volume fat_is_consistent() returns true exactly   *)
(* when, in the FAT as fill renders it, every link of an allocated entry  *)
(* is end-of-chain or leads to an allocated data cluster, no cluster is   *)
(* the successor of two clusters, and no chain is a cycle; and a second   *)
(* call with no write in between gives the same answer.                   *)

(* The FAT as rendered: the value of entry e *)
Rendered(ext, data_clusters) ==
    FatEntries(ext, 0, data_clusters + RESERVED_FAT_ENTRIES)

DataEntries(data_clusters) ==
    RESERVED_FAT_ENTRIES..(data_clusters + RESERVED_FAT_ENTRIES - 1)

(* Entry e belongs to a chain: it is a data entry that is neither free nor bad *)
InChain(fat, data_clusters, e) ==
    /\ e \in DataEntries(data_clusters)
    /\ fat[e + 1] # FAT_UNALLOCATED
    /\ fat[e + 1] # FAT_BAD_CLUSTER

(* Following the links from e ends at end-of-chain within k steps *)
RECURSIVE Terminates(_, _, _, _)
Terminates(fat, data_clusters, e, k) ==
    IF fat[e + 1] = FAT_END_OF_CHAIN THEN TRUE
    ELSE IF k = 0 \/ ~InChain(fat, data_clusters, fat[e + 1]) THEN FALSE
    ELSE Terminates(fat, data_clusters, fat[e + 1], k - 1)

ChainsConsistent(fat, data_clusters) ==
    /\ \A e \in DataEntries(data_clusters) :
           InChain(fat, data_clusters, e)
               => Terminates(fat, data_clusters, e, data_clusters)
    /\ \A e1, e2 \in DataEntries(data_clusters) :
           (/\ e1 # e2
            /\ InChain(fat, data_clusters, e1)
            /\ InChain(fat, data_clusters, e2)
            /\ fat[e1 + 1] = fat[e2 + 1])
               => fat[e1 + 1] = FAT_END_OF_CHAIN

C33_ConsistentIff ==
    /\ [](finalized =>
            (fat_is_consistent(extents, g_data_clusters).ret
                <=> ChainsConsistent(Rendered(extents, g_data_clusters),
                                     g_data_clusters)))
    /\ [][(last.op = "fat_is_consistent" /\ last'.op = "fat_is_consistent")
              => last'.ret = last.ret]_vars

-----------------------------------------------------------------------------
(* C34: once fat_finalize has run the extent table never changes again:   *)
(* no image_fill, image_receive or image_clear_data on any range, the FAT *)
(* region included, alters it.                                            *)
C34_FrozenAfterFinalize ==
    [][finalized => extents' = extents]_vars

(* C34, as the code has it: after fat_finalize image_fill and             *)
(* image_clear_data never change the extent table, and image_receive      *)
(* changes it only when the part of the write that is handed to           *)
(* fatservice holds an entry that differs from the value held and the     *)
(* first such entry is a data entry that does not hold the bad-cluster    *)
(* marker; on a table that passes fat_check_invariants every such write   *)
(* changes it.  The part handed over begins at the first byte of the      *)
(* write that lies in the FAT and ends where the write ends, counted from *)
(* the start of the FAT.                                                  *)
C34_ChangedOnlyByFatWrite ==
    [][finalized =>
        LET start == last'.start
            length == last'.length
            meets == /\ last'.op = "image_receive"
                     /\ last'.n = last.n + 1
                     /\ running'
                     /\ length > 0
                     /\ start < FatStart + g_fat_size
                     /\ start + length > FatStart
            off == IF start > FatStart THEN start - FatStart ELSE 0
            bufpos == IF start > FatStart THEN 0 ELSE FatStart - start
            len == Min(g_fat_size - off, start + length - FatStart)
            handed == SubSeq(last'.buf \o last'.beyond, bufpos + 1, bufpos + len)
            entry_nr == off \div 4
            entries == len \div 4
            held == FatEntries(extents, entry_nr, entries)
            differs(i) == le32toh(handed, i) # held[i + 1]
            taken == \E i \in 0..(entries - 1) :
                         /\ differs(i)
                         /\ \A j \in 0..(i - 1) : ~differs(j)
                         /\ entry_nr + i >= RESERVED_FAT_ENTRIES
                         /\ held[i + 1] # FAT_BAD_CLUSTER
                         /\ find_extent(extents, entry_nr + i) > 0
        IN /\ (extents' # extents) => (meets /\ taken)
           /\ (meets /\ taken /\ fat_check_invariants(extents, g_data_clusters))
                  => extents' # extents]_vars

(* A write of a link to the FAT region was accepted and is in the table *)
C34_Witness ==
    /\ finalized
    /\ last.op = "image_receive"
    /\ last.start >= FatStart
    /\ last.ret = 0
    /\ \E i \in 1..Len(extents) :
           ~is_literal(extents[i]) /\ extents[i].next = ROOT_DIR_CLUSTER + 1

-----------------------------------------------------------------------------
(* C35: a read or a write whose part inside the FAT region has an offset  *)
(* or a length that is not a multiple of 4 - asked for that way, or left  *)
(* when image_fill stops at a stored chunk - is answered with EINVAL: the *)
(* process goes on running and a read returns no FAT bytes.               *)
C35_MisalignedIsEINVAL ==
    [][(/\ finalized
        /\ last'.n = last.n + 1
        /\ \/ /\ last'.op = "image_fill"
              /\ FatAsserts(image_fill_calls(services, chunks, AllAccept, last'.buf,
                                             last'.start, last'.length))
           \/ /\ last'.op = "image_receive"
              /\ ReachesFat(last'.start, last'.length)
              /\ ~FatAligned(FatPart(last'.start, last'.length).length,
                             FatPart(last'.start, last'.length).offset))
        => (/\ running'
            /\ last'.ret = EINVAL
            /\ last'.op = "image_fill" => last'.out = last'.buf)]_vars

-----------------------------------------------------------------------------
(* C36: in every state the first two extents are the single-cluster       *)
(* literal extents of clusters 0 and 1, FAT entry 0 reads 0x0FFFFFF8 and  *)
(* FAT entry 1 reads 0x0FFFFFFF.                                          *)
C36_Sentinels ==
    /\ Len(extents) >= RESERVED_FAT_ENTRIES
    /\ extents[1] = entry_0
    /\ extents[2] = entry_1
    /\ FatEntries(extents, 0, RESERVED_FAT_ENTRIES) = <<entry_0.next, FAT_END_OF_CHAIN>>

-----------------------------------------------------------------------------
(* C37: in every composer state no two service-map entries cover a common *)
(* byte, no two data-map entries cover a common byte, and every entry of  *)
(* either map has length >= 1.                                            *)
C37_MapsDisjoint ==
    /\ \A k \in DOMAIN services : services[k].length >= 1
    /\ \A k \in DOMAIN chunks : Len(chunks[k]) >= 1
    /\ \A k1, k2 \in DOMAIN services :
           k1 < k2 => k1 + services[k1].length <= k2
    /\ \A k1, k2 \in DOMAIN chunks :
           k1 < k2 => k1 + Len(chunks[k1]) <= k2

(* A registration inside a registered range has left three service-map    *)
(* entries, and a chunk is stored                                         *)
C37_Witness ==
    /\ Cardinality(DOMAIN services) = 3
    /\ chunks # EmptyMap
    /\ last.op \in {"image_register", "image_receive"}

-----------------------------------------------------------------------------
(* C38: a write that FatDataService::receive accepted changes the         *)
(* rendered value of the entries written only: every FAT entry outside    *)
(* the written buffer reads the same before and after, whichever path     *)
(* (growing the preceding extent, changing a next, punching a singleton   *)
(* out of a single-cluster extent, at an extent's start, at its end or in *)
(* its interior) each changed entry took.                                 *)

(* Every entry of the FAT, the first padding entry included *)
WholeFat(ext) == FatEntries(ext, 0, MaxDataClusters + RESERVED_FAT_ENTRIES + 1)

C38_OtherEntriesKept ==
    [][(last'.op = "FatDataService::receive" /\ last'.n = last.n + 1
            /\ last'.ret = 0)
        => \A e \in 0..(MaxDataClusters + RESERVED_FAT_ENTRIES) :
               \/ /\ e >= last'.start \div 4
                  /\ e < (last'.start + last'.length) \div 4
               \/ WholeFat(extents')[e + 1] = WholeFat(extents)[e + 1]]_vars

-----------------------------------------------------------------------------
(* C39: if FatDataService::receive returns an error for a buffer, the     *)
(* extent table is exactly as it was before the call: entries earlier in  *)
(* the buffer are not applied.                                            *)
C39_RejectedWriteChangesNothing ==
    [][(last'.op = "FatDataService::receive" /\ last'.n = last.n + 1
            /\ last'.ret # 0)
        => extents' = extents]_vars

-----------------------------------------------------------------------------
(* C40: image_fill terminates for every reachable composer state and every *)
(* request (start, length): each iteration of its walk either produces at  *)
(* least one byte (chunk copy, service fill or zero-fill) or advances the  *)
(* service iterator past a range that ends at or before the current        *)
(* position, so the walk has at most length + (number of service ranges)   *)
(* iterations; only an iteration whose service fill fails does neither,    *)
(* and it returns at once.  On success exactly length bytes have been      *)
(* produced.                                                               *)
Progresses(step) ==
    \/ step.kind \in {"chunk", "service", "zero"} /\ step.fill_len >= 1
    \/ step.kind = "skip" /\ step.range_end <= step.pos

Kinds(steps) == {steps[i].kind : i \in DOMAIN steps}

RECURSIVE Produced(_)
Produced(steps) ==
    IF steps = <<>> THEN 0 ELSE Head(steps).fill_len + Produced(Tail(steps))

C40_FillTerminates ==
    [][(last'.op = "image_fill" /\ last'.n = last.n + 1)
        => LET steps == FillSteps(services, chunks, last'.errs,
                                  find_chunk(chunks, last'.start),
                                  find_service(services, last'.start),
                                  last'.start, last'.length, 0)
           IN /\ \A i \in DOMAIN steps :
                    \/ Progresses(steps[i])
                    \/ steps[i].kind = "error" /\ i = Len(steps)
              /\ Len(steps) <= last'.length + Cardinality(DOMAIN services)
              /\ (last'.ret # 0) <=> ("error" \in Kinds(steps))
              /\ last'.ret = 0 => /\ Produced(steps) = last'.length
                                  /\ Len(last'.out) = last'.length]_vars

(* A fill that returned 0 after a chunk copy ran past a service range, the *)
(* range was skipped and the rest of the request was zero-filled           *)
C40_Witness ==
    /\ last.op = "image_fill"
    /\ last.ret = 0
    /\ LET steps == FillSteps(services, chunks, last.errs,
                              find_chunk(chunks, last.start),
                              find_service(services, last.start),
                              last.start, last.length, 0)
       IN /\ {"chunk", "skip", "zero"} \subseteq Kinds(steps)
          /\ Produced(steps) = last.length
          /\ last.length = MaxPos

====
